---- MODULE Spec2Model ----
(***************************************************************************)
(* Mobius: intent resolution (resolveAction), command registry and         *)
(* dispatch (detectCommand / runCommand), folder access (ensureAccess /    *)
(* handleAccess) and directory search (searchDirectory), modelled from     *)
(* src/commands.js.                                                        *)
(*                                                                         *)
(* Text is a sequence of tokens.  A token is a maximal run of \w           *)
(* characters (a "word"), one whitespace character, or one punctuation     *)
(* character.  Texts are normalised: no two word tokens are adjacent, so   *)
(* a regular expression's \b holds on both sides of every word token.      *)
(***************************************************************************)
EXTENDS Integers, Sequences, FiniteSets, TLC

VARIABLES
  text,        \* resolveAction: the text argument
  context,     \* resolveAction: the context argument, [present, text]
  action,      \* the last value returned by resolveAction
  evals,       \* number of resolveAction evaluations so far
  rootHandle,  \* commands.js:72   let rootHandle
  stored,      \* IndexedDB slot 'rootHandle' of store 'handles'
  focusFile,   \* commands.js:361  let focusFile
  lastModel,   \* localStorage 'mobius_last_model'
  tree,        \* searchDirectory: the root directory searched
  filter,      \* searchDirectory: [query, ext, from, to]
  found,       \* searchDirectory: [done, threw, st], the outcome of the search
  apiSupported,\* 'showDirectoryPicker' in window
  perm,        \* the permission state of the handle in the IndexedDB slot
  pc,          \* the await at which the command in flight is suspended
  cmd,         \* runCommand: the command argument of the call in flight / last made
  args,        \* runCommand: the args argument
  ret,         \* runCommand: "pending", or how the call ended: "true", "false", "throw"
  invoked,     \* the handlers runCommand invoked in this call, in order
  out,         \* the kinds of the messages passed to output in this call, in order
  cause,       \* handleAccess: the step whose failure ended it, or None
  picked,      \* handleAccess: the handle showDirectoryPicker returned, or None
  haBefore,    \* handleAccess: <<rootHandle, stored>> when it was entered
  haRet,       \* handleAccess: its return value in this call, or None
  eaRet,       \* ensureAccess: its return value in this call, or None
  traversed,   \* the body of handleFind / handleList read a directory in this call
  eaCall,      \* ensureAccess call in progress: [prompts, loads, before]
  calls,       \* the last ensureAccess calls made in a row (at most two)
  loggedIn,    \* getAuth('mobius_user_id') is set
  remote,      \* the /api/focus requests sent in this call, in order: [api, id, content]
  listed,      \* the files of the clickable multiple-match list on the page
  pendingList, \* the latest focus search ended with that list and awaits a selection
  fprev,       \* focusFile when the focus command or click in flight began
  fsel,        \* focusSelectFile: its file argument
  fnew,        \* handleFocus add: the content built as 'updated'
  created,     \* the Focus Session was made by the create path and not replaced since
  ASK,         \* server: mobius_query.ASK of the /ask request in flight / last served
  hasImages,   \* server: the request carries at least one image file
  spc,         \* server: the await at which the request or call is suspended
  caller,      \* server: the call site of the askWithFallback call in flight / last made
  startModel,  \* askWithFallback: its startModel argument
  chain,       \* askWithFallback: the providers its loop iterates over
  idx,         \* askWithFallback: the position in chain of the provider awaited
  lastErr,     \* askWithFallback: the error caught last
  attempts,    \* the provider calls made for this request, in order: [model, site, outcome]
  cret,        \* askWithFallback: how the call ended: [kind, reply, modelUsed, err]
  resp,        \* /ask: the response sent: [status, reply, modelUsed, error]
  served,      \* the number of requests and calls started so far
  findRaw,     \* parseFindArgs: its raw argument
  clock,       \* the Date that new Date() returns while the arguments are parsed
  findParts,   \* parseFindArgs: [done, parts], parts being the object it returned
  bpc,         \* the await at which a selection made during another command is suspended
  bsel,        \* that selection's file argument
  original,    \* the content the original had when it was copied into the Mobius folder
  synced       \* the content last read from, or written with success to, the document
               \* of the Focus Session now held

sessionVars == <<rootHandle, stored, focusFile, lastModel>>
resolveVars == <<text, context, action, evals>>
searchVars  == <<tree, filter, found>>
envVars     == <<apiSupported, perm>>
focusVars   == <<loggedIn, remote, listed, pendingList, fprev, fsel, fnew, created>>
callVars    == <<pc, cmd, args, ret, invoked, out, cause, picked, haBefore, haRet, eaRet,
                 traversed, eaCall, calls>>
serverVars  == <<ASK, hasImages, spc, caller, startModel, chain, idx, lastErr, attempts,
                 cret, resp, served>>
parseVars   == <<findRaw, clock, findParts>>
overlapVars == <<bpc, bsel, original, synced>>

None == "none"

\* ---------------------------------------------------------------- tokens

SP == " "
NL == "\n"
TAB == "\t"
Punct == {":", "'", "-", ".", "/", "(", ")", ","}
IsSpace(t) == t \in {SP, NL, TAB}
IsWord(t)  == ~IsSpace(t) /\ t \notin Punct

\* String.prototype.toLowerCase on one token (the vocabulary's cased words)
toLowerCase(t) ==
  CASE t = "Date"        -> "date"
    [] t = "LIST"        -> "list"
    [] t = "Find"        -> "find"
    [] t = "Ask"         -> "ask"
    [] t = "Foo"         -> "foo"
    [] t = "Constructor" -> "constructor"
    [] t = "Groq"        -> "groq"
    [] t = "Drive"       -> "drive"
    [] t = "My"          -> "my"
    [] t = "Ext"         -> "ext"
    [] t = "From"        -> "from"
    [] t = "To"          -> "to"
    [] t = "PDF"         -> "pdf"
    [] t = "A"           -> "a"
    [] t = "End"         -> "end"
    [] t = "Update"      -> "update"
    [] t = "ADD"         -> "add"
    [] OTHER             -> t

Lower(s) == [i \in 1..Len(s) |-> toLowerCase(s[i])]

RECURSIVE TrimStart(_)
TrimStart(s) == IF s # <<>> /\ IsSpace(s[1]) THEN TrimStart(Tail(s)) ELSE s

RECURSIVE TrimEnd(_)
TrimEnd(s) ==
  IF s # <<>> /\ IsSpace(s[Len(s)]) THEN TrimEnd(SubSeq(s, 1, Len(s) - 1)) ELSE s

\* String.prototype.trim
Trim(s) == TrimEnd(TrimStart(s))

StartsWith(s, p) == Len(p) <= Len(s) /\ SubSeq(s, 1, Len(p)) = p

\* positions at which p occurs in s
Occurrences(s, p) ==
  {i \in 1..(Len(s) - Len(p) + 1) : SubSeq(s, i, i + Len(p) - 1) = p}

Includes(s, p) == p = <<>> \/ Occurrences(s, p) # {}

Min(S) == CHOOSE x \in S : \A y \in S : x <= y

\* String.prototype.replace(p, '') with a string pattern: first occurrence
ReplaceFirst(s, p) ==
  IF Occurrences(s, p) = {} THEN s
  ELSE LET i == Min(Occurrences(s, p))
       IN  SubSeq(s, 1, i - 1) \o SubSeq(s, i + Len(p), Len(s))

\* String.prototype.split(sep): the sequence of pieces
RECURSIVE Split(_, _)
Split(s, sep) ==
  IF Occurrences(s, sep) = {} THEN <<s>>
  ELSE LET i == Min(Occurrences(s, sep))
       IN  <<SubSeq(s, 1, i - 1)>> \o Split(SubSeq(s, i + Len(sep), Len(s)), sep)

\* Array.prototype.join(sep)
RECURSIVE Join(_, _)
Join(parts, sep) ==
  IF parts = <<>> THEN <<>>
  ELSE IF Len(parts) = 1 THEN parts[1]
  ELSE parts[1] \o sep \o Join(Tail(parts), sep)

\* the words of a phrase separated by single spaces
RECURSIVE Phrase(_)
Phrase(ws) ==
  IF Len(ws) <= 1 THEN ws ELSE <<ws[1], SP>> \o Phrase(Tail(ws))

\* ---------------------------------------------------------------- registry

MODEL_CHAIN == <<"groq", "gemini", "mistral">>

InChain(m) == \E i \in 1..Len(MODEL_CHAIN) : MODEL_CHAIN[i] = m

\* own properties of the COMMANDS object literal
CommandKeys ==
  {"date", "time", "location", "device", "google", "access", "find", "list",
   "history", "focus", "ask"}

\* all-lower-case property names every object literal inherits from
\* Object.prototype: COMMANDS[k] is a truthy value for them, with no isAI and
\* no handler property
ObjectPrototypeKeys == {"constructor", "__proto__"}

NoHandler == "undefined"

\* COMMANDS[command]
COMMANDS(k) ==
  CASE k \in {"date", "time", "location", "device", "google", "history", "focus"} ->
         [truthy |-> TRUE, requiresAccess |-> FALSE, isAI |-> FALSE, handler |-> k]
    [] k = "access" ->
         [truthy |-> TRUE, requiresAccess |-> FALSE, isAI |-> FALSE, handler |-> "access"]
    [] k \in {"find", "list"} ->
         [truthy |-> TRUE, requiresAccess |-> TRUE, isAI |-> FALSE, handler |-> k]
    [] k = "ask" ->
         [truthy |-> TRUE, requiresAccess |-> FALSE, isAI |-> TRUE, handler |-> NoHandler]
    [] k \in ObjectPrototypeKeys ->
         [truthy |-> TRUE, requiresAccess |-> FALSE, isAI |-> FALSE, handler |-> NoHandler]
    [] OTHER ->
         [truthy |-> FALSE, requiresAccess |-> FALSE, isAI |-> FALSE, handler |-> NoHandler]

SINGLE_WORD_COMMANDS ==
  {"date", "time", "location", "device", "access", "list", "history", "google"}

\* ---------------------------------------------------------------- actions' values

NullAction == [type |-> "null", command |-> "", args |-> <<>>, answer |-> <<>>, model |-> ""]
CommandAction(c, a) ==
  [type |-> "command", command |-> c, args |-> a, answer |-> <<>>, model |-> ""]
LocalAction(ans) ==
  [type |-> "local", command |-> "", args |-> <<>>, answer |-> ans, model |-> ""]
GoogleAction(m) ==
  [type |-> "google", command |-> "", args |-> <<>>, answer |-> <<>>, model |-> m]
AIAction == [type |-> "ai", command |-> "", args |-> <<>>, answer |-> <<>>, model |-> ""]

\* ---------------------------------------------------------------- detectCommand

\* /^(\w+):\s*([\s\S]*)/ on a trimmed text: the match, or no match
ColonMatch(trimmed) ==
  IF Len(trimmed) >= 2 /\ IsWord(trimmed[1]) /\ trimmed[2] = ":"
  THEN [ok |-> TRUE, word |-> trimmed[1],
        rest |-> TrimStart(SubSeq(trimmed, 3, Len(trimmed)))]
  ELSE [ok |-> FALSE, word |-> "", rest |-> <<>>]

detectCommand_CaseSensitive(t) ==
  LET trimmed == Trim(t)
      m       == ColonMatch(trimmed)
  IN  IF Len(trimmed) = 1 /\ trimmed[1] \in SINGLE_WORD_COMMANDS
      THEN CommandAction(trimmed[1], <<>>)
      ELSE IF ~m.ok THEN NullAction
      ELSE IF ~COMMANDS(m.word).truthy THEN NullAction
      ELSE CommandAction(m.word, Trim(m.rest))

\* detectCommand(text): { command, args } or null
detectCommand(t) ==
  LET trimmed == Trim(t)
      lower   == Lower(trimmed)
      m       == ColonMatch(trimmed)
  IN  IF /\ Len(lower) = 1 /\ lower[1] \in SINGLE_WORD_COMMANDS
         /\ ~\E i \in 1..Len(trimmed) : IsSpace(trimmed[i])
      THEN CommandAction(lower[1], <<>>)
      ELSE IF ~m.ok THEN NullAction
      ELSE IF ~COMMANDS(toLowerCase(m.word)).truthy THEN NullAction
      ELSE CommandAction(toLowerCase(m.word), Trim(m.rest))

resolveCommand(t) == detectCommand(t)

\* ---------------------------------------------------------------- resolveLocalData

Alt(ws) == {<<w>> : w \in ws}

\* what('s| is) the (time|date|day) | (current|today'?s?) (time|date|day)
DateTimeA ==
  {<<"what">> \o a \o <<SP, "the", SP>> \o x :
     a \in {<<"'", "s">>, <<SP, "is">>}, x \in Alt({"time", "date", "day"})}
  \cup
  {t \o <<SP>> \o x :
     t \in {<<"current">>, <<"today">>, <<"todays">>, <<"today", "'">>, <<"today", "'", "s">>},
     x \in Alt({"time", "date", "day"})}

\* what (time|day|date) is it
DateTimeB == {<<"what", SP>> \o x \o <<SP, "is", SP, "it">> : x \in Alt({"time", "day", "date"})}

\* where am i | my location | what city | what country | what region
LocationP ==
  {Phrase(<<"where", "am", "i">>), Phrase(<<"my", "location">>), Phrase(<<"what", "city">>),
   Phrase(<<"what", "country">>), Phrase(<<"what", "region">>)}

\* what (browser|device|os|operating system) am i (using|on)
DeviceP ==
  {<<"what", SP>> \o d \o <<SP, "am", SP, "i", SP>> \o u :
     d \in {<<"browser">>, <<"device">>, <<"os">>, Phrase(<<"operating", "system">>)},
     u \in Alt({"using", "on"})}

\* my (timezone|time zone|utc offset)
TimezoneP ==
  {<<"my", SP>> \o z : z \in {<<"timezone">>, Phrase(<<"time", "zone">>), Phrase(<<"utc", "offset">>)}}

\* am i online | internet connection | my connection | my bandwidth
NetworkP ==
  {Phrase(<<"am", "i", "online">>), Phrase(<<"internet", "connection">>),
   Phrase(<<"my", "connection">>), Phrase(<<"my", "bandwidth">>)}

\* my (currency|local currency)
CurrencyP == {Phrase(<<"my", "currency">>), Phrase(<<"my", "local", "currency">>)}

\* my (screen|resolution|display)
ScreenP == {<<"my", SP>> \o x : x \in Alt({"screen", "resolution", "display"})}

LOCAL_PATTERNS ==
  << [pattern |-> DateTimeA, key |-> "datetime"],
     [pattern |-> DateTimeB, key |-> "datetime"],
     [pattern |-> LocationP, key |-> "location"],
     [pattern |-> DeviceP,   key |-> "device"],
     [pattern |-> TimezoneP, key |-> "timezone"],
     [pattern |-> NetworkP,  key |-> "network"],
     [pattern |-> CurrencyP, key |-> "currency"],
     [pattern |-> ScreenP,   key |-> "screen"] >>

\* pattern.test(text) for /\b(alt|alt|...)\b/i
Test(pattern, t) == \E p \in pattern : Includes(Lower(t), p)

\* lines.find(l => l.startsWith(label + ':')): the line, or undefined
Find(lines, label) ==
  LET hits == {i \in 1..Len(lines) : StartsWith(lines[i], <<label, ":">>)}
  IN  IF hits = {} THEN [found |-> FALSE, line |-> <<>>]
      ELSE [found |-> TRUE, line |-> lines[Min(hits)]]

\* line.replace(label + ': ', '')
Strip(line, label) == ReplaceFirst(line, <<label, ":", SP>>)

\* [..].filter(Boolean): the lines that were found
RECURSIVE FilterFound(_)
FilterFound(fs) ==
  IF fs = <<>> THEN <<>>
  ELSE (IF fs[1].found THEN <<fs[1].line>> ELSE <<>>) \o FilterFound(Tail(fs))

\* l.split(': ')[1]; undefined joins as the empty string
SecondPiece(l) ==
  LET ps == Split(l, <<":", SP>>) IN IF Len(ps) >= 2 THEN ps[2] ELSE <<>>

\* l.split(': ').slice(1).join(': ')
AfterFirstPiece(l) == Join(Tail(Split(l, <<":", SP>>)), <<":", SP>>)

\* the answer extracted for one key; <<>> is the falsy answer (null or '')
Answer(key, lines) ==
  CASE key = "datetime" ->
         LET dt == Find(lines, "Date/Time")
             tz == Find(lines, "Timezone")
         IN  IF ~dt.found THEN <<>>
             ELSE Strip(dt.line, "Date/Time")
                  \o (IF tz.found THEN <<SP, "(">> \o Strip(tz.line, "Timezone") \o <<")">>
                      ELSE <<>>)
    [] key = "location" ->
         LET loc == Find(lines, "Location")
         IN  IF loc.found THEN Strip(loc.line, "Location") ELSE <<>>
    [] key = "device" ->
         LET ls == FilterFound(<<Find(lines, "OS"), Find(lines, "Browser"), Find(lines, "Device")>>)
         IN  Join([i \in 1..Len(ls) |-> SecondPiece(ls[i])], <<",", SP>>)
    [] key = "timezone" ->
         LET tz == Find(lines, "Timezone")
         IN  IF tz.found THEN Strip(tz.line, "Timezone") ELSE <<>>
    [] key = "network" ->
         LET ls == FilterFound(<<Find(lines, "Online"), Find(lines, "Connection"),
                                 Find(lines, "Bandwidth"), Find(lines, "Latency")>>)
         IN  Join([i \in 1..Len(ls) |-> AfterFirstPiece(ls[i])], <<",", SP>>)
    [] key = "currency" ->
         LET cur == Find(lines, "Currency")
         IN  IF cur.found THEN Strip(cur.line, "Currency") ELSE <<>>
    [] key = "screen" ->
         LET scr == Find(lines, "Screen")
         IN  IF scr.found THEN Strip(scr.line, "Screen") ELSE <<>>

RECURSIVE LocalFrom_AnswersAnyway(_, _, _)
LocalFrom_AnswersAnyway(i, t, lines) ==
  IF i > Len(LOCAL_PATTERNS) THEN NullAction
  ELSE IF ~Test(LOCAL_PATTERNS[i].pattern, t) THEN LocalFrom_AnswersAnyway(i + 1, t, lines)
  ELSE LocalAction(Answer(LOCAL_PATTERNS[i].key, lines))

\* the loop of resolveLocalData from pattern i on
RECURSIVE LocalFrom(_, _, _)
LocalFrom(i, t, lines) ==
  IF i > Len(LOCAL_PATTERNS) THEN NullAction
  ELSE IF ~Test(LOCAL_PATTERNS[i].pattern, t) THEN LocalFrom(i + 1, t, lines)
  ELSE LET answer == Answer(LOCAL_PATTERNS[i].key, lines)
       IN  IF answer # <<>> THEN LocalAction(answer) ELSE LocalFrom(i + 1, t, lines)

\* resolveLocalData(text, context)
resolveLocalData(t, ctx) ==
  IF ~ctx.present \/ ctx.text = <<>> THEN NullAction
  ELSE LocalFrom(1, t, Split(ctx.text, <<NL>>))

\* ---------------------------------------------------------------- resolveGoogle

GOOGLE_PATTERNS ==
  << [pattern |-> {<<"drive">>, Phrase(<<"my", "files">>), Phrase(<<"google", "drive">>), <<"gdrive">>},
      model |-> "google_drive"],
     [pattern |-> {<<"task">>, <<"todo">>, <<"to", "-", "do">>, Phrase(<<"to", "do", "list">>)},
      model |-> "google_tasks"],
     [pattern |-> {<<"calendar">>, <<"schedule">>, Phrase(<<"my", "events">>), <<"appointments">>},
      model |-> "google_calendar"],
     [pattern |-> {<<"email">>, <<"gmail">>, <<"inbox">>, Phrase(<<"my", "emails">>), Phrase(<<"my", "mail">>)},
      model |-> "google_gmail"] >>

\* /^Ask:\s*\w+/i.test(text)
AskOverride(t) ==
  /\ Len(t) >= 3
  /\ toLowerCase(t[1]) = "ask"
  /\ t[2] = ":"
  /\ LET r == TrimStart(SubSeq(t, 3, Len(t))) IN r # <<>> /\ IsWord(r[1])

RECURSIVE GoogleFrom(_, _)
GoogleFrom(i, t) ==
  IF i > Len(GOOGLE_PATTERNS) THEN NullAction
  ELSE IF Test(GOOGLE_PATTERNS[i].pattern, t) THEN GoogleAction(GOOGLE_PATTERNS[i].model)
  ELSE GoogleFrom(i + 1, t)

\* resolveGoogle(text)
resolveGoogle(t) == IF AskOverride(t) THEN NullAction ELSE GoogleFrom(1, t)

\* ---------------------------------------------------------------- resolveAction

Or(a, b) == IF a # NullAction THEN a ELSE b

resolveAction_GoogleFirst(t, ctx) ==
  Or(resolveCommand(t), Or(resolveGoogle(t), Or(resolveLocalData(t, ctx), AIAction)))

resolveAction_HandleAware(t, ctx) ==
  IF rootHandle # None THEN AIAction
  ELSE Or(resolveCommand(t), Or(resolveLocalData(t, ctx), Or(resolveGoogle(t), AIAction)))

\* resolveAction(text, context)
resolveAction(t, ctx) ==
  Or(resolveCommand(t), Or(resolveLocalData(t, ctx), Or(resolveGoogle(t), AIAction)))

\* ---------------------------------------------------------------- model persistence

\* getLastModel(): localStorage value || 'groq'
getLastModel == IF lastModel = None THEN "groq" ELSE lastModel

\* setLastModel(model): the new localStorage value
setLastModel(model) == IF InChain(model) THEN model ELSE lastModel

\* /^Ask:\s*(\w+)/i on the untrimmed text: the captured word, lower-cased
AskWord(t) == toLowerCase(TrimStart(SubSeq(t, 3, Len(t)))[1])

\* ---------------------------------------------------------------- dates

\* A Date is [y, m, d, t]: year, month 0..11, day of month, tick of the day.
\* A day has TicksPerDay ticks; tick 0 is 00:00:00.000 and the last tick is
\* 23:59:59.999.
TicksPerDay == 3

IsLeap(y) == (y % 4 = 0 /\ y % 100 # 0) \/ y % 400 = 0

DaysInMonth(y, m) ==
  IF m = 1 THEN (IF IsLeap(y) THEN 29 ELSE 28)
  ELSE IF m \in {3, 5, 8, 10} THEN 30 ELSE 31

\* the Date with the fields given, after the carry JavaScript's Date applies to
\* an out-of-range month or day of month
RECURSIVE MakeDate(_, _, _, _)
MakeDate(y, m, d, t) ==
  IF m < 0 THEN MakeDate(y - 1, m + 12, d, t)
  ELSE IF m > 11 THEN MakeDate(y + 1, m - 12, d, t)
  ELSE IF d < 1 THEN
         (IF m = 0 THEN MakeDate(y - 1, 11, d + 31, t)
          ELSE MakeDate(y, m - 1, d + DaysInMonth(y, m - 1), t))
  ELSE IF d > DaysInMonth(y, m) THEN MakeDate(y, m + 1, d - DaysInMonth(y, m), t)
  ELSE [y |-> y, m |-> m, d |-> d, t |-> t]

\* an optional Date: null, or a Date
NullDate == [set |-> FALSE, y |-> 0, m |-> 0, d |-> 0, t |-> 0]
SomeDate(dt) == [set |-> TRUE, y |-> dt.y, m |-> dt.m, d |-> dt.d, t |-> dt.t]

\* the order of Dates (the comparison of their time values)
Before(a, b) ==
  \/ a.y < b.y
  \/ a.y = b.y /\ a.m < b.m
  \/ a.y = b.y /\ a.m = b.m /\ a.d < b.d
  \/ a.y = b.y /\ a.m = b.m /\ a.d = b.d /\ a.t < b.t

\* d.setHours(0,0,0,0) and d.setHours(23,59,59,999)
StartOfDay(dt) == [dt EXCEPT !.t = 0]
EndOfDay(dt)   == [dt EXCEPT !.t = TicksPerDay - 1]

\* new Date(str) for the date literals of the vocabulary; anything else is an
\* Invalid Date
DateLiteral_InvalidAsDate(s) ==
  CASE s = <<"2026-03-01">>       -> SomeDate(MakeDate(2026, 2, 1, 1))
    [] s = <<"2026-03-31T12:00">> -> SomeDate(MakeDate(2026, 2, 31, 1))
    [] OTHER                      -> SomeDate(MakeDate(2026, 5, 15, 1))

DateLiteral(s) ==
  CASE s = <<"2026-03-01">>       -> SomeDate(MakeDate(2026, 2, 1, 1))
    [] s = <<"2026-03-31T12:00">> -> SomeDate(MakeDate(2026, 2, 31, 1))
    [] OTHER                      -> NullDate

\* parseNaturalDate(str), at the time now
parseNaturalDate(str, now) ==
  IF str = <<>> THEN NullDate
  ELSE LET s == Lower(Trim(str))
       IN  CASE s = <<"today">> ->
                  SomeDate(StartOfDay(now))
             [] s = <<"yesterday">> ->
                  SomeDate(StartOfDay(MakeDate(now.y, now.m, now.d - 1, now.t)))
             [] s = Phrase(<<"last", "week">>) ->
                  SomeDate(StartOfDay(MakeDate(now.y, now.m, now.d - 7, now.t)))
             [] s = Phrase(<<"last", "month">>) ->
                  SomeDate(StartOfDay(MakeDate(now.y, now.m - 1, now.d, now.t)))
             [] s = Phrase(<<"last", "year">>) ->
                  SomeDate(StartOfDay(MakeDate(now.y - 1, now.m, now.d, now.t)))
             [] OTHER -> DateLiteral(str)

\* ---------------------------------------------------------------- parseFindArgs

\* /\b(Ext|From|To):\s*/gi matches at position i
MarkerAt(s, i) ==
  /\ i + 1 <= Len(s)
  /\ toLowerCase(s[i]) \in {"ext", "from", "to"}
  /\ s[i + 1] = ":"

\* raw.split(subArgPattern): <<before, key, value, key, value, ...>>
RECURSIVE SplitArgs(_)
SplitArgs(s) ==
  LET ms == {i \in 1..Len(s) : MarkerAt(s, i)}
  IN  IF ms = {} THEN <<s>>
      ELSE LET i == Min(ms)
           IN  <<SubSeq(s, 1, i - 1), <<s[i]>>>>
               \o SplitArgs(TrimStart(SubSeq(s, i + 2, Len(s))))

\* val.replace(/^\./, '')
StripDot(v) == IF v # <<>> /\ v[1] = "." THEN Tail(v) ELSE v

\* the loop over the (key, value) pairs from index i on
RECURSIVE ParseParts(_, _, _, _)
ParseParts(tokens, i, parts, now) ==
  IF i > Len(tokens) THEN parts
  ELSE LET key == toLowerCase(tokens[i][1])
           val == IF i + 1 <= Len(tokens) THEN Trim(tokens[i + 1]) ELSE <<>>
           p1  == IF key = "ext" THEN [parts EXCEPT !.ext = Lower(StripDot(val))] ELSE parts
           p2  == IF key = "from" THEN [p1 EXCEPT !.from = parseNaturalDate(val, now)] ELSE p1
           p3  == IF key = "to" THEN [p2 EXCEPT !.to = parseNaturalDate(val, now)] ELSE p2
       IN  ParseParts(tokens, i + 2, p3, now)

\* parseFindArgs(raw), at the time now: { name, ext, from, to }
parseFindArgs(raw, now) ==
  LET tokens == SplitArgs(raw)
      parts  == ParseParts(tokens, 2,
                  [name |-> Lower(Trim(tokens[1])), ext |-> <<>>,
                   from |-> NullDate, to |-> NullDate], now)
  IN  IF parts.to.set THEN [parts EXCEPT !.to = SomeDate(EndOfDay(parts.to))] ELSE parts

\* ---------------------------------------------------------------- searchDirectory

ResultCap == 200

\* An entry is a file (modified: its lastModified; readable: getFile()
\* succeeds) or a directory (listable: the iteration of entries() completes;
\* delivered: the number of entries the iteration yields before it ends or fails).
File(name, modified, readable) ==
  [name |-> name, kind |-> "file", children |-> <<>>, modified |-> modified,
   readable |-> readable, listable |-> TRUE, delivered |-> 0]

Dir(name, children, listable) ==
  [name |-> name, kind |-> "directory", children |-> children,
   modified |-> MakeDate(2026, 0, 1, 0), readable |-> TRUE, listable |-> listable,
   delivered |-> IF listable THEN Len(children) ELSE 0]

\* a directory whose iteration fails after it has yielded k entries
PartialDir(name, children, k) == [Dir(name, children, FALSE) EXCEPT !.delivered = k]

FileExt_WholeName(nameLower) == nameLower

\* nameLower.slice(nameLower.lastIndexOf('.') + 1), or '' without a dot
FileExt(nameLower) ==
  LET dots == {i \in 1..Len(nameLower) : nameLower[i] = "."}
  IN  IF dots = {} THEN <<>>
      ELSE LET i == CHOOSE x \in dots : \A y \in dots : y <= x
           IN  SubSeq(nameLower, i + 1, Len(nameLower))

\* the date test of lines 325-332: TRUE when the entry is skipped (continue)
DateSkips(e, from, to) ==
  /\ from.set \/ to.set
  /\ e.kind = "file"
  /\ e.readable
  /\ \/ from.set /\ Before(e.modified, from)
     \/ to.set /\ Before(to, e.modified)

MayDescend_Always(n) == TRUE

\* results.length < 200, the guard of both recursive calls
MayDescend(n) == n < ResultCap

\* The state of one search: the results array, the number of entries visited
\* (loop iterations), of entries visited once the results held ResultCap
\* entries, and of sub-directories entered once they did.
NewSearch == [results |-> <<>>, visited |-> 0, late |-> 0, lateEntered |-> 0]

Visit(st) ==
  [st EXCEPT !.visited = @ + 1,
             !.late = IF Len(st.results) >= ResultCap THEN @ + 1 ELSE @]

RECURSIVE SearchRange(_, _, _, _, _, _, _, _, _)

Descend_LosesResults(e, query, ext, from, to, st, fullPath) ==
  LET after == SearchRange(e.children, 1, e.delivered, query, ext, from, to, st, fullPath)
  IN  IF e.listable THEN after ELSE [after EXCEPT !.results = <<>>]

\* the recursive call inside try { } catch { /* skip */ }: the iterations on
\* the entries the sub-directory yields; a failure of its iteration ends them
\* and is swallowed, what they pushed stays in the shared results array
Descend(e, query, ext, from, to, st, fullPath) ==
  SearchRange(e.children, 1, e.delivered, query, ext, from, to,
              [st EXCEPT !.lateEntered =
                 IF Len(st.results) >= ResultCap THEN @ + 1 ELSE @],
              fullPath)

SearchEntry_PruneNonMatching(e, query, ext, from, to, st0, path) ==
  LET st        == Visit(st0)
      fullPath  == IF path # <<>> THEN path \o <<"/">> \o e.name ELSE e.name
      nameLower == Lower(e.name)
      pushed    == [st EXCEPT !.results = Append(@, [kind |-> e.kind, path |-> fullPath])]
  IN  IF ~Includes(nameLower, query) THEN st
      ELSE IF ext # <<>> /\ e.kind = "file" /\ FileExt(nameLower) # ext THEN st
      ELSE IF DateSkips(e, from, to) THEN st
      ELSE IF e.kind = "directory" /\ MayDescend(Len(pushed.results))
           THEN SearchRange(e.children, 1, e.delivered, query, ext, from, to, pushed, fullPath)
           ELSE pushed

\* one iteration of the for-await loop of searchDirectory, on entry e
SearchEntry(e, query, ext, from, to, st0, path) ==
  LET st        == Visit(st0)
      fullPath  == IF path # <<>> THEN path \o <<"/">> \o e.name ELSE e.name
      nameLower == Lower(e.name)
      pushed    == [st EXCEPT !.results = Append(@, [kind |-> e.kind, path |-> fullPath])]
  IN  IF ~Includes(nameLower, query) THEN
        (IF e.kind = "directory" /\ MayDescend(Len(st.results))
         THEN Descend(e, query, ext, from, to, st, fullPath) ELSE st)
      ELSE IF ext # <<>> /\ e.kind = "file" /\ FileExt(nameLower) # ext THEN st
      ELSE IF DateSkips(e, from, to) THEN st
      ELSE IF e.kind = "directory" /\ MayDescend(Len(pushed.results))
           THEN Descend(e, query, ext, from, to, pushed, fullPath) ELSE pushed

\* the iterations on entries lo..hi in order, each starting from the state the
\* one before it left (the range is halved to keep the evaluation shallow)
SearchRange(entries, lo, hi, query, ext, from, to, st, path) ==
  IF lo > hi THEN st
  ELSE IF lo = hi THEN SearchEntry(entries[lo], query, ext, from, to, st, path)
  ELSE LET mid   == (lo + hi) \div 2
           first == SearchRange(entries, lo, mid, query, ext, from, to, st, path)
       IN  IF first.visited >= 0   \* the first half is evaluated before the second
           THEN SearchRange(entries, mid + 1, hi, query, ext, from, to, first, path)
           ELSE first

\* searchDirectory(dirHandle, query, ext, from, to, results, path) called on a
\* root directory with results = [] and path = ''; threw when the root's own
\* entries cannot be read
searchDirectory(root, query, ext, from, to) ==
  [threw |-> ~root.listable,
   st |-> SearchRange(root.children, 1, root.delivered, query, ext, from, to,
                      NewSearch, <<>>)]

\* ---------------------------------------------------------------- idle components

vars == <<resolveVars, sessionVars, searchVars, envVars, callVars, focusVars, serverVars,
         parseVars, overlapVars>>

\* focusFile = null
NoFocus ==
  [present |-> FALSE, id |-> None, name |-> None, mimeType |-> None, content |-> <<>>,
   folderId |-> None, originalId |-> None, path |-> None]

NoFile == [id |-> None, name |-> None, mimeType |-> None, inMobius |-> FALSE, path |-> None]

\* no focus command made yet
FocusIdle ==
  /\ remote = <<>> /\ listed = <<>> /\ pendingList = FALSE /\ fprev = NoFocus /\ fsel = NoFile
  /\ fnew = <<>> /\ created = FALSE

EmptyDir == Dir(<<>>, <<>>, TRUE)
NoFilter == [query |-> <<>>, ext |-> <<>>, from |-> NullDate, to |-> NullDate]
NotSearched == [done |-> FALSE, threw |-> FALSE, st |-> NewSearch]

ResolveIdle ==
  /\ text = <<>>
  /\ context = [present |-> FALSE, text |-> <<>>]
  /\ action = NullAction
  /\ evals = 0

SearchIdle == tree = EmptyDir /\ filter = NoFilter /\ found = NotSearched

NewCall == [prompts |-> 0, loads |-> 0, before |-> None]

\* no command in flight, none made yet
CallIdle ==
  /\ pc = "idle" /\ cmd = None /\ args = <<>> /\ ret = None
  /\ invoked = <<>> /\ out = <<>> /\ cause = None /\ picked = None
  /\ haBefore = <<None, None>> /\ haRet = None /\ eaRet = None
  /\ traversed = FALSE /\ eaCall = NewCall /\ calls = <<>>

\* a failure: the provider (or service) it came from, what failed, and whether
\* the /ask handler wrapped it as 'All models failed. Last error: ' + message
NoErr == [by |-> None, kind |-> None, wrapped |-> FALSE]

\* a provider's result string: who produced it and what it holds
NoReply == [by |-> None, kind |-> None]

NoLabel == <<>>

NotCalled == [kind |-> None, reply |-> NoReply, modelUsed |-> NoLabel, err |-> NoErr]
NotSent == [status |-> 0, reply |-> NoReply, modelUsed |-> NoLabel, error |-> NoErr]

\* the server has received no request yet
ServerIdle ==
  /\ ASK = None /\ hasImages = FALSE /\ spc = "idle" /\ caller = None
  /\ startModel = None /\ chain = <<>> /\ idx = 0 /\ lastErr = NoErr
  /\ attempts = <<>> /\ cret = NotCalled /\ resp = NotSent /\ served = 0

NoParts == [name |-> <<>>, ext |-> <<>>, from |-> NullDate, to |-> NullDate]

\* no selection is in flight beside a command
OverlapIdle == bpc = "idle" /\ bsel = NoFile /\ original = <<>> /\ synced = <<>>

\* parseFindArgs has not been applied
ParseIdle ==
  /\ findRaw = <<>> /\ clock = MakeDate(2026, 10, 2, 1)
  /\ findParts = [done |-> FALSE, parts |-> NoParts]

\* ================================================================ resolution

MaxPad   == 1   \* leading / trailing whitespace tokens of an input text
MaxEvals == 2   \* evaluations of resolveAction on one input

RECURSIVE Pads(_)
Pads(n) == IF n = 0 THEN {<<>>} ELSE Pads(n - 1) \cup {<<SP>> \o p : p \in Pads(n - 1)}

HeadWords ==
  {"date", "Date", "LIST", "access", "find", "Find", "focus", "ask", "Ask",
   "foo", "constructor", "__proto__"}

Seps == {<<>>, <<":">>, <<":", SP>>, <<SP>>}

Bodies ==
  { <<>>, <<"report">>,
    Phrase(<<"what", "time", "is", "it">>),
    <<"what", "'", "s", SP, "the", SP, "date">>,
    Phrase(<<"My", "location">>),
    Phrase(<<"my", "screen", "on", "Drive">>),
    Phrase(<<"what", "os", "am", "i", "using">>),
    Phrase(<<"my", "connection">>),
    <<"to", "-", "do">>,
    Phrase(<<"Groq", "my", "files">>) }

Normalised(t) == \A i \in 1..(Len(t) - 1) : ~(IsWord(t[i]) /\ IsWord(t[i + 1]))

Texts ==
  {t \in {l \o h \o s \o b \o r :
            l \in Pads(MaxPad),
            h \in {<<>>} \cup {<<w>> : w \in HeadWords},
            s \in Seps, b \in Bodies, r \in Pads(MaxPad)} : Normalised(t)}

Line(label, value) == <<label, ":", SP>> \o value

Contexts ==
  { [present |-> FALSE, text |-> <<>>],
    [present |-> TRUE,  text |-> <<>>],
    [present |-> TRUE,  text |->
       Join(<<Line("Date/Time", <<"noon">>), Line("Timezone", <<"AWST">>),
              Line("Location", <<"Perth">>), Line("OS", <<"Linux">>),
              Line("Browser", <<"Chrome">>), Line("Screen", <<"wide">>),
              Line("Online", <<"Yes">>)>>, <<NL>>)],
    [present |-> TRUE,  text |->
       Join(<<Line("Timezone", <<"AWST">>), <<"Location", ":">>, <<"OS", ":">>>>, <<NL>>)] }

SampleFocus ==
  [present |-> TRUE, id |-> "d1", name |-> "notes.md", mimeType |-> "text/plain",
   content |-> <<>>, folderId |-> "mobius", originalId |-> None, path |-> None]

Handles == {"h1", "h2"}

InitResolve ==
  /\ text \in Texts
  /\ context \in Contexts
  /\ action = NullAction
  /\ evals = 0
  /\ \/ rootHandle = None /\ stored = None /\ focusFile = NoFocus
     \/ rootHandle = "h1" /\ stored = "h1" /\ focusFile = SampleFocus
  /\ lastModel = None
  /\ SearchIdle
  /\ apiSupported = TRUE /\ perm = "granted"
  /\ CallIdle
  /\ loggedIn = TRUE /\ FocusIdle
  /\ ServerIdle
  /\ ParseIdle
  /\ OverlapIdle

\* one evaluation of resolveAction(text, context)
Resolve ==
  /\ evals < MaxEvals
  /\ action' = resolveAction(text, context)
  /\ evals' = evals + 1
  /\ UNCHANGED <<overlapVars, parseVars, serverVars, text, context, sessionVars, searchVars, envVars, callVars, focusVars>>

\* getAskModel(text): saves the model named after "Ask:" when it is in the chain
GetAskModel ==
  /\ lastModel' = IF AskOverride(text) THEN setLastModel(AskWord(text)) ELSE lastModel
  /\ UNCHANGED <<overlapVars, parseVars, serverVars, resolveVars, focusVars, rootHandle, stored, focusFile, searchVars, envVars, callVars>>

\* a page reload: the module-level lets run again (rootHandle = null,
\* focusFile = null), the command in flight is gone, the stores persist, and
\* the browser may or may not keep the permission granted on the stored handle
Reload ==
  /\ rootHandle' = None
  /\ focusFile' = NoFocus
  /\ remote' = <<>> /\ listed' = <<>> /\ pendingList' = FALSE /\ fprev' = NoFocus /\ fsel' = NoFile
  /\ fnew' = <<>> /\ created' = FALSE
  /\ perm' \in {perm, "prompt"}
  /\ pc' = "idle" /\ cmd' = None /\ args' = <<>> /\ ret' = None
  /\ invoked' = <<>> /\ out' = <<>> /\ cause' = None /\ picked' = None
  /\ haBefore' = <<None, None>> /\ haRet' = None /\ eaRet' = None
  /\ traversed' = FALSE /\ eaCall' = NewCall /\ calls' = <<>>
  /\ bpc' = "idle" /\ bsel' = NoFile /\ original' = <<>> /\ synced' = <<>>
  /\ UNCHANGED <<parseVars, serverVars, resolveVars, stored, lastModel, searchVars, apiSupported, loggedIn>>

NextResolve == Resolve \/ GetAskModel \/ Reload

SpecResolve == InitResolve /\ [][NextResolve]_vars

\* ---------------------------------------------------------------- claims C1..C4

\* C1: resolveAction is total and ordered.  Every evaluation yields exactly one
\* action of one of the four kinds, and it is the result of the first
\* classifier that matches in the order command, local data, domain service,
\* with the AI action when none matches.
C1_TotalOrdered ==
  evals > 0 =>
    LET c == resolveCommand(text)
        l == resolveLocalData(text, context)
        g == resolveGoogle(text)
    IN  /\ action.type \in {"command", "local", "google", "ai"}
        /\ c # NullAction => action = c
        /\ (c = NullAction /\ l # NullAction) => action = l
        /\ (c = NullAction /\ l = NullAction /\ g # NullAction) => action = g
        /\ (c = NullAction /\ l = NullAction /\ g = NullAction) => action = AIAction

\* a text that both the local-data and the domain-service classifier match,
\* resolved to the local answer
C1_Witness ==
  /\ evals > 0
  /\ resolveCommand(text) = NullAction
  /\ resolveLocalData(text, context) # NullAction
  /\ resolveGoogle(text) # NullAction
  /\ action.type = "local"

BareShortcut(t) == Len(t) = 1 /\ toLowerCase(t[1]) \in SINGLE_WORD_COMMANDS

\* C3: a text that is exactly one bare shortcut keyword, in any letter case,
\* resolves to the Command action of that keyword with empty arguments.
C3_BareShortcut ==
  (evals > 0 /\ BareShortcut(text)) => action = CommandAction(toLowerCase(text[1]), <<>>)

C3_Witness ==
  /\ evals > 0
  /\ BareShortcut(text)
  /\ text[1] # toLowerCase(text[1])
  /\ action.type = "command"

\* "<kw>: <rest>" with <kw> not a registered keyword
UnknownColonForm(t) ==
  /\ Len(t) >= 2
  /\ IsWord(t[1])
  /\ t[2] = ":"
  /\ toLowerCase(t[1]) \notin CommandKeys

\* C4: a text "<kw>: <rest>" whose keyword is not registered never resolves to
\* a Command action.
C4_UnknownKeywordNoCommand ==
  (evals > 0 /\ UnknownColonForm(text)) => action.type # "command"

\* ---------------------------------------------------------------- claim C32

\* the labels of the context lines an answer for a key is taken from
KeyLabels(key) ==
  CASE key = "datetime" -> {"Date/Time"}
    [] key = "location" -> {"Location"}
    [] key = "device"   -> {"OS", "Browser", "Device"}
    [] key = "timezone" -> {"Timezone"}
    [] key = "network"  -> {"Online", "Connection", "Bandwidth", "Latency"}
    [] key = "currency" -> {"Currency"}
    [] key = "screen"   -> {"Screen"}

ContextLines == IF context.present THEN Split(context.text, <<NL>>) ELSE <<>>

HasLineFor(key) ==
  \E i \in 1..Len(ContextLines), label \in KeyLabels(key) :
     StartsWith(ContextLines[i], <<label, ":">>)

MatchedPatterns == {i \in 1..Len(LOCAL_PATTERNS) : Test(LOCAL_PATTERNS[i].pattern, text)}

\* C32: a local answer is never empty and is given only for a matched pattern
\* whose line is in the context; when no matched pattern has a line (or the
\* context is absent) the text resolves as the domain-service classifier, or
\* else the AI fallback, decides.
C32_NoLineNoAnswer ==
  (evals > 0 /\ resolveCommand(text) = NullAction) =>
    /\ action.type = "local" =>
         /\ action.answer # <<>>
         /\ \E i \in MatchedPatterns : HasLineFor(LOCAL_PATTERNS[i].key)
    /\ (\A i \in MatchedPatterns : ~HasLineFor(LOCAL_PATTERNS[i].key))
         => action = Or(resolveGoogle(text), AIAction)

C32_Witness ==
  /\ evals > 0 /\ resolveCommand(text) = NullAction
  /\ context.present /\ context.text # <<>>
  /\ MatchedPatterns # {}
  /\ \A i \in MatchedPatterns : ~HasLineFor(LOCAL_PATTERNS[i].key)
  /\ action.type = "google"

\* ================================================================ dispatch and access

MaxCalls == 2   \* ensureAccess calls in a row that are remembered

\* the clock read by parseNaturalDate while a find command runs
Now == MakeDate(2026, 10, 2, 1)

\* sample modification times and directory entries
Early == MakeDate(2026, 0, 10, 1)
Mid   == MakeDate(2026, 5, 15, 1)
Late  == MakeDate(2026, 9, 20, 1)

Root(children) == Dir(<<>>, children, TRUE)

APdf == File(<<"a", ".", "pdf">>, Mid, TRUE)
ATxt == File(<<"a", ".", "txt">>, Early, TRUE)
BPdf == File(<<"b", ".", "pdf">>, Late, TRUE)

\* the directory a granted handle gives access to
FS(h) ==
  IF h = "h1" THEN Root(<<APdf, ATxt, Dir(<<"b">>, <<BPdf>>, TRUE)>>)
  ELSE Root(<<BPdf>>)

DispatchKeys == (CommandKeys \ {"focus"}) \cup ObjectPrototypeKeys \cup {"foo"}

FindArgs ==
  { <<>>, <<"a">>, <<"zz">>, <<"Ext", ":", SP, "pdf">>,
    <<"A", SP, "Ext", ":", SP, ".", "PDF">> }

ArgsOf(c) == IF c = "find" THEN FindArgs ELSE {<<>>}

Bool(b) == IF b THEN "true" ELSE "false"

\* the await at which a handler first suspends
Entry(h) ==
  CASE h \in {"date", "time"} -> "h_sync"
    [] h \in {"location", "device", "google", "history"} -> "h_remote"
    [] h = "access" -> "ha_entry"
    [] h \in {"find", "list"} -> "ea_entry"

\* runCommand: how the call goes for a keyword before any handler runs: it
\* returns false, or cmd.handler is not a function and the call throws a
\* TypeError, or the handler is called
Dispatched(c) ==
  LET d == COMMANDS(c)
  IN  IF ~d.truthy \/ d.isAI THEN "false"
      ELSE IF d.handler = NoHandler THEN "throw"
      ELSE "pending"

\* runCommand(command, args, outputFn, outputEl) up to the handler's first await
RunCommand(c, a) ==
  /\ pc = "idle"
  /\ cmd' = c
  /\ args' = a
  /\ out' = <<>> /\ cause' = None /\ picked' = None /\ haBefore' = <<None, None>>
  /\ haRet' = None /\ eaRet' = None /\ traversed' = FALSE /\ eaCall' = NewCall
  /\ calls' = IF c = "access" THEN <<>> ELSE calls
  /\ ret' = Dispatched(c)
  /\ LET d == COMMANDS(c)
     IN  IF Dispatched(c) = "pending"
         THEN invoked' = <<d.handler>> /\ pc' = Entry(d.handler)
         ELSE invoked' = <<>> /\ pc' = "idle"
  /\ UNCHANGED <<overlapVars, parseVars, serverVars, resolveVars, focusVars, sessionVars, searchVars, envVars>>

\* handleDate, handleTime
HandleSync ==
  /\ pc = "h_sync"
  /\ out' = Append(out, cmd)
  /\ ret' = "true"
  /\ pc' = "idle"
  /\ UNCHANGED <<overlapVars, parseVars, serverVars, resolveVars, focusVars, sessionVars, searchVars, envVars, cmd, args, invoked, cause,
                 picked, haBefore, haRet, eaRet, traversed, eaCall, calls>>

\* handleLocation, handleGoogle, handleDevice, handleChatHistory: a remote call
\* inside try/catch, reported either way
HandleRemote ==
  /\ pc = "h_remote"
  /\ \E ok \in BOOLEAN : out' = Append(out, IF ok THEN cmd ELSE "error")
  /\ ret' = "true"
  /\ pc' = "idle"
  /\ UNCHANGED <<overlapVars, parseVars, serverVars, resolveVars, focusVars, sessionVars, searchVars, envVars, cmd, args, invoked, cause,
                 picked, haBefore, haRet, eaRet, traversed, eaCall, calls>>

\* if (!await ensureAccess(output)) return;  -- where the handler goes on
AfterEnsureAccess_Ungated(ok, c) == IF c = "find" THEN "body_find" ELSE "body_list"

AfterEnsureAccess(ok, c) ==
  IF ok THEN (IF c = "find" THEN "body_find" ELSE "body_list") ELSE "idle"

LastCalls(s) == IF Len(s) > MaxCalls THEN SubSeq(s, Len(s) - MaxCalls + 1, Len(s)) ELSE s

\* ensureAccess returns v, with c its call record and h the handle held then
EAReturn(v, c, h) ==
  /\ eaRet' = Bool(v)
  /\ eaCall' = c
  /\ calls' = LastCalls(Append(calls,
                [prompts |-> c.prompts, loads |-> c.loads, ok |-> v,
                 before |-> c.before, after |-> h]))
  /\ pc' = AfterEnsureAccess(v, cmd)
  /\ ret' = IF AfterEnsureAccess(v, cmd) = "idle" THEN "true" ELSE ret

\* handleAccess returns v: to runCommand (the access command), or to ensureAccess
HAReturn(v, c, h) ==
  /\ haRet' = Bool(v)
  /\ IF cmd = "access"
     THEN pc' = "idle" /\ ret' = "true" /\ eaRet' = eaRet /\ eaCall' = c /\ calls' = calls
     ELSE EAReturn(v, c, h)

EnsureEntry_NoFastPath ==
  /\ pc = "ea_entry"
  /\ pc' = "ea_load"
  /\ eaCall' = [prompts |-> 0, loads |-> 0, before |-> rootHandle]
  /\ UNCHANGED <<overlapVars, parseVars, serverVars, resolveVars, focusVars, sessionVars, searchVars, envVars, cmd, args, ret, invoked, out,
                 cause, picked, haBefore, haRet, eaRet, traversed, calls>>

\* ensureAccess: if (rootHandle) return true;
EnsureEntry ==
  /\ pc = "ea_entry"
  /\ IF rootHandle # None
     THEN EAReturn(TRUE, [prompts |-> 0, loads |-> 0, before |-> rootHandle], rootHandle)
     ELSE /\ pc' = "ea_load"
          /\ eaCall' = [prompts |-> 0, loads |-> 0, before |-> rootHandle]
          /\ UNCHANGED <<ret, eaRet, calls>>
  /\ UNCHANGED <<overlapVars, parseVars, serverVars, resolveVars, focusVars, sessionVars, searchVars, envVars, cmd, args, invoked, out,
                 cause, picked, haBefore, haRet, traversed>>

\* ensureAccess: const stored = await loadHandle(); if (stored) ...
EnsureLoad ==
  /\ pc = "ea_load"
  /\ eaCall' = [eaCall EXCEPT !.loads = @ + 1]
  /\ \E ok \in BOOLEAN : pc' = IF ok /\ stored # None THEN "ea_query" ELSE "ea_fallback"
  /\ UNCHANGED <<overlapVars, parseVars, serverVars, resolveVars, focusVars, sessionVars, searchVars, envVars, cmd, args, ret, invoked, out,
                 cause, picked, haBefore, haRet, eaRet, traversed, calls>>

\* ensureAccess: let perm = await stored.queryPermission({ mode: 'read' })
EnsureQuery ==
  /\ pc = "ea_query"
  /\ \E ok \in BOOLEAN :
       IF ~ok THEN pc' = "ea_fallback" /\ UNCHANGED <<rootHandle, ret, eaRet, eaCall, calls>>
       ELSE IF perm = "granted"
       THEN rootHandle' = stored /\ EAReturn(TRUE, eaCall, stored)
       ELSE pc' = "ea_request" /\ UNCHANGED <<rootHandle, ret, eaRet, eaCall, calls>>
  /\ UNCHANGED <<overlapVars, parseVars, serverVars, resolveVars, focusVars, stored, focusFile, lastModel, searchVars, envVars, cmd, args,
                 invoked, out, cause, picked, haBefore, haRet, traversed>>

\* ensureAccess: perm = await stored.requestPermission({ mode: 'read' })
\* The user is asked when the state is "prompt"; a denied state is answered
\* without asking; the call throws without a user gesture.
EnsureRequest ==
  /\ pc = "ea_request"
  /\ \E res \in (IF perm = "prompt" THEN {"granted", "denied", "throw"} ELSE {"denied", "throw"}) :
       LET c == [eaCall EXCEPT !.prompts = IF perm = "prompt" /\ res # "throw" THEN @ + 1 ELSE @]
       IN  IF res = "granted"
           THEN /\ perm' = "granted"
                /\ rootHandle' = stored
                /\ EAReturn(TRUE, c, stored)
           ELSE /\ perm' = IF res = "denied" THEN "denied" ELSE perm
                /\ pc' = "ea_fallback"
                /\ eaCall' = c
                /\ UNCHANGED <<rootHandle, ret, eaRet, calls>>
  /\ UNCHANGED <<overlapVars, parseVars, serverVars, resolveVars, focusVars, stored, focusFile, lastModel, searchVars, apiSupported, cmd, args,
                 invoked, out, cause, picked, haBefore, haRet, traversed>>

\* ensureAccess: output('No folder access granted. Running Access...');
\*               return await handleAccess(output);
EnsureFallback ==
  /\ pc = "ea_fallback"
  /\ out' = Append(out, "running_access")
  /\ pc' = "ha_entry"
  /\ UNCHANGED <<overlapVars, parseVars, serverVars, resolveVars, focusVars, sessionVars, searchVars, envVars, cmd, args, ret, invoked,
                 cause, picked, haBefore, haRet, eaRet, traversed, eaCall, calls>>

\* the message of handleAccess's catch for an error of the given name
Report_AlwaysDenied(errName) == "denied"

Report(errName) == IF errName # "AbortError" THEN "denied" ELSE "cancelled"

\* handleAccess: catch (err) { output(...); return false; }
Catch(errName, step, c, h) ==
  /\ out' = Append(out, Report(errName))
  /\ cause' = step
  /\ HAReturn(FALSE, c, h)

Forget_Keeps(h) == h

\* handleAccess: rootHandle = null
Forget(h) == None

\* handleAccess: the support check, then rootHandle = null
AccessEntry ==
  /\ pc = "ha_entry"
  /\ haBefore' = <<rootHandle, stored>>
  /\ IF ~apiSupported
     THEN /\ out' = Append(out, "unsupported")
          /\ cause' = "unsupported"
          /\ HAReturn(FALSE, eaCall, rootHandle)
          /\ UNCHANGED rootHandle
     ELSE /\ rootHandle' = Forget(rootHandle)
          /\ pc' = "ha_clear"
          /\ UNCHANGED <<out, cause, haRet, eaRet, eaCall, calls, ret>>
  /\ UNCHANGED <<overlapVars, parseVars, serverVars, resolveVars, focusVars, stored, focusFile, lastModel, searchVars, envVars, cmd, args,
                 invoked, picked, traversed>>

\* clearHandle(): the slot after objectStore.delete('rootHandle')
clearHandle_Keeps(slot) == slot

clearHandle(slot) == None

\* handleAccess: await clearHandle()
AccessClear ==
  /\ pc = "ha_clear"
  /\ \E ok \in BOOLEAN :
       IF ok
       THEN /\ stored' = clearHandle(stored)
            /\ pc' = "ha_pick"
            /\ UNCHANGED <<out, cause, haRet, eaRet, eaCall, calls, ret>>
       ELSE /\ Catch("UnknownError", "clear", eaCall, rootHandle)
            /\ UNCHANGED stored
  /\ UNCHANGED <<overlapVars, parseVars, serverVars, resolveVars, focusVars, rootHandle, focusFile, lastModel, searchVars, envVars, cmd, args,
                 invoked, picked, haBefore, traversed>>

\* handleAccess: const handle = await window.showDirectoryPicker({ mode: 'read' });
\*               rootHandle = handle;
\* The user picks a folder or dismisses the picker (AbortError); without a user
\* gesture the call throws a SecurityError and no picker is shown.
AccessPick ==
  /\ pc = "ha_pick"
  /\ \E r \in Handles \cup {"abort", "error"} :
       LET c == [eaCall EXCEPT !.prompts = IF r # "error" THEN @ + 1 ELSE @]
       IN  IF r \in Handles
           THEN /\ rootHandle' = r
                /\ picked' = r
                /\ pc' = "ha_save"
                /\ eaCall' = c
                /\ UNCHANGED <<out, cause, haRet, eaRet, calls, ret>>
           ELSE /\ Catch(IF r = "abort" THEN "AbortError" ELSE "SecurityError",
                         IF r = "abort" THEN "abort" ELSE "picker", c, rootHandle)
                /\ UNCHANGED <<rootHandle, picked>>
  /\ UNCHANGED <<overlapVars, parseVars, serverVars, resolveVars, focusVars, stored, focusFile, lastModel, searchVars, envVars, cmd, args,
                 invoked, haBefore, traversed>>

\* saveHandle(handle): the slot after objectStore.put(handle, 'rootHandle')
saveHandle(slot, handle) == handle

\* handleAccess: await saveHandle(handle)
AccessSave ==
  /\ pc = "ha_save"
  /\ \E ok \in BOOLEAN :
       IF ok
       THEN /\ stored' = saveHandle(stored, rootHandle)
            /\ perm' = "granted"
            /\ pc' = "ha_list"
            /\ UNCHANGED <<out, cause, haRet, eaRet, eaCall, calls, ret>>
       ELSE /\ Catch("UnknownError", "save", eaCall, rootHandle)
            /\ UNCHANGED <<stored, perm>>
  /\ UNCHANGED <<overlapVars, parseVars, serverVars, resolveVars, focusVars, rootHandle, focusFile, lastModel, searchVars, apiSupported, cmd,
                 args, invoked, picked, haBefore, traversed>>

\* handleAccess: the listing of the new folder, then return true
AccessList ==
  /\ pc = "ha_list"
  /\ \E ok \in BOOLEAN :
       IF ok
       THEN /\ out' = Append(out, "granted")
            /\ HAReturn(TRUE, eaCall, rootHandle)
            /\ UNCHANGED cause
       ELSE Catch("NotAllowedError", "list", eaCall, rootHandle)
  /\ UNCHANGED <<overlapVars, parseVars, serverVars, resolveVars, focusVars, sessionVars, searchVars, envVars, cmd, args, invoked, picked,
                 haBefore, traversed>>

\* handleFind after ensureAccess returned true
BodyFind ==
  /\ pc = "body_find"
  /\ LET p == parseFindArgs(args, Now)
     IN  IF Trim(args) = <<>> \/ p.name = <<>>
         THEN out' = Append(out, "usage") /\ ret' = "true" /\ UNCHANGED traversed
         ELSE \E listable \in BOOLEAN :
                LET r == searchDirectory(IF listable THEN FS(rootHandle)
                                         ELSE PartialDir(<<>>, FS(rootHandle).children, 0),
                                         p.name, p.ext, p.from, p.to)
                IN  /\ traversed' = TRUE
                    /\ out' = IF r.threw THEN Append(out, "searching")
                              ELSE out \o <<"searching",
                                             IF r.st.results = <<>> THEN "no_matches" ELSE "results">>
                    /\ ret' = IF r.threw THEN "throw" ELSE "true"
  /\ pc' = "idle"
  /\ UNCHANGED <<overlapVars, parseVars, serverVars, resolveVars, focusVars, sessionVars, searchVars, envVars, cmd, args, invoked, cause,
                 picked, haBefore, haRet, eaRet, eaCall, calls>>

\* handleList after ensureAccess returned true
BodyList ==
  /\ pc = "body_list"
  /\ traversed' = TRUE
  /\ \E listable \in BOOLEAN :
       IF listable THEN out' = Append(out, "listing") /\ ret' = "true"
       ELSE ret' = "throw" /\ UNCHANGED out
  /\ pc' = "idle"
  /\ UNCHANGED <<overlapVars, parseVars, serverVars, resolveVars, focusVars, sessionVars, searchVars, envVars, cmd, args, invoked, cause,
                 picked, haBefore, haRet, eaRet, eaCall, calls>>

Init ==
  /\ ResolveIdle
  /\ SearchIdle
  /\ CallIdle
  /\ rootHandle = None /\ focusFile = NoFocus /\ lastModel = None
  /\ loggedIn = TRUE /\ FocusIdle
  /\ apiSupported \in BOOLEAN
  /\ \/ stored = None /\ perm = "prompt"
     \/ stored \in Handles /\ perm \in {"granted", "prompt", "denied"}
  /\ ServerIdle
  /\ ParseIdle
  /\ OverlapIdle

Next ==
  \/ \E c \in DispatchKeys : \E a \in ArgsOf(c) : RunCommand(c, a)
  \/ HandleSync
  \/ HandleRemote
  \/ EnsureEntry
  \/ EnsureLoad
  \/ EnsureQuery
  \/ EnsureRequest
  \/ EnsureFallback
  \/ AccessEntry
  \/ AccessClear
  \/ AccessPick
  \/ AccessSave
  \/ AccessList
  \/ BodyFind
  \/ BodyList
  \/ Reload

Spec == Init /\ [][Next]_vars

Has(seq, m) == \E i \in 1..Len(seq) : seq[i] = m

Returned == pc = "idle" /\ cmd # None

\* C5: runCommand returns false and invokes no handler for an unknown keyword
\* and for ask; for every other registered keyword it invokes that keyword's
\* handler exactly once and returns true.
C5_DispatchOutcome ==
  Returned =>
    IF cmd \notin CommandKeys \/ cmd = "ask"
    THEN ret = "false" /\ invoked = <<>>
    ELSE ret = "true" /\ invoked = <<COMMANDS(cmd).handler>>

Denials == {"cancelled", "denied", "unsupported"}

AccessRefused == Returned /\ cmd \in {"find", "list"} /\ eaRet = "false"

\* C6 as stated: when find or list is dispatched and access cannot be obtained,
\* the handler is not invoked, nothing is traversed or listed, and a denial
\* message is shown.
C6_HandlerNotInvoked ==
  AccessRefused =>
    /\ invoked = <<>>
    /\ ~traversed
    /\ \E m \in Denials : Has(out, m)

\* C6 amended: when find or list is dispatched and access cannot be obtained,
\* the handler is invoked once and returns at its ensureAccess check: nothing
\* is traversed or listed, a denial message is shown, and runCommand returns true.
C6_HandlerReturnsEarly ==
  (cmd \in {"find", "list"} /\ eaRet = "false") =>
    /\ pc = "idle"
    /\ invoked = <<cmd>>
    /\ ~traversed
    /\ out[1] = "running_access"
    /\ out[Len(out)] \in Denials
    /\ ret = "true"

C6_Witness ==
  /\ AccessRefused
  /\ cmd = "find" /\ args = <<"a">>
  /\ cause = "abort"
  /\ out = <<"running_access", "cancelled">>

Previous == calls[Len(calls) - 1]

Latest == calls[Len(calls)]

NoOpSuccess(c) == c.ok /\ c.prompts = 0 /\ c.loads = 0 /\ c.after = c.before

C8_ClearedThenReplaced ==
  /\ pc = "ha_pick" => rootHandle = None /\ stored = None
  /\ haRet = "true" => picked \in Handles /\ rootHandle = picked /\ stored = picked

C8_Witness ==
  /\ haRet = "true"
  /\ haBefore = <<"h1", "h1">>
  /\ picked = "h2" /\ rootHandle = "h2" /\ stored = "h2"

NotProceeding ==
  /\ ret # "throw"
  /\ cmd \in {"find", "list"} => pc = "idle" /\ eaRet = "false" /\ ~traversed

\* C9 as stated: a failed acquisition is reported as cancelled exactly when the
\* user aborted the folder picker and as denied for every other failure;
\* handleAccess and ensureAccess return false, no exception escapes and the
\* calling find or list does not proceed.
C9_CancelledOrDenied ==
  haRet = "false" =>
    /\ out[Len(out)] = IF cause = "abort" THEN "cancelled" ELSE "denied"
    /\ NotProceeding

\* C9 amended: where the File System Access API is missing the failure is
\* reported as unsupported; otherwise it is reported as cancelled exactly when
\* the user aborted the folder picker and as denied for every other failure;
\* in all cases handleAccess and ensureAccess return false, no exception
\* escapes and the calling find or list does not proceed.
C9_ReportedByCause ==
  haRet = "false" =>
    /\ out[Len(out)] = CASE cause = "abort" -> "cancelled"
                         [] cause = "unsupported" -> "unsupported"
                         [] OTHER -> "denied"
    /\ cause \in {"abort", "unsupported", "clear", "picker", "save", "list"}
    /\ NotProceeding

C9_Witness ==
  /\ haRet = "false" /\ eaRet = "false"
  /\ cmd = "list" /\ pc = "idle" /\ ret = "true"
  /\ cause = "save"
  /\ out = <<"running_access", "denied">>
  /\ rootHandle = "h1" /\ stored = None

\* ---------------------------------------------------------------- claims C33, C34

\* C33: between operations, a handle held in memory is the handle in the store
\* slot, and after handleAccess has returned false no handle is held in memory.
C33_MemoryMatchesStore ==
  pc = "idle" =>
    /\ rootHandle # None => stored = rootHandle
    /\ haRet = "false" => rootHandle = None

\* C34: an access command whose folder picker is cancelled or refused leaves
\* the in-memory handle and the store slot empty, whatever was held before;
\* where the directory-picker API is missing, both are left as they were.
C34_RefusedPickerEmptiesBoth ==
  (cmd = "access" /\ pc = "idle" /\ haRet = "false") =>
    /\ cause \in {"abort", "picker"} => rootHandle = None /\ stored = None
    /\ cause = "unsupported" => <<rootHandle, stored>> = haBefore

C34_Witness ==
  /\ cmd = "access" /\ pc = "idle" /\ haRet = "false" /\ cause = "abort"
  /\ haBefore = <<"h1", "h1">>
  /\ rootHandle = None /\ stored = None

\* ================================================================ directory search

MaxExtra == 1   \* entries of a directory beyond ResultCap

DigitTok == <<"0", "1", "2", "3", "4", "5", "6", "7", "8", "9">>

RECURSIVE Digits(_)
Digits(n) == IF n < 10 THEN <<DigitTok[n + 1]>> ELSE Digits(n \div 10) \o <<DigitTok[(n % 10) + 1]>>

\* n files a1.pdf .. an.pdf
Many(n) == [i \in 1..n |-> File(<<"a">> \o Digits(i) \o <<".", "pdf">>, Mid, TRUE)]

\* a.pdf, a.txt and b/ holding b.pdf
ExampleTree == Root(<<APdf, ATxt, Dir(<<"b">>, <<BPdf>>, TRUE)>>)

\* leaves below directories named c and a
NestedTree == Root(<<Dir(<<"c">>, <<APdf, Dir(<<"a">>, <<BPdf, ATxt>>, TRUE)>>, TRUE), BPdf>>)

\* c/ fails after it has yielded a.pdf; b/ and a.txt follow it
FailingTree ==
  Root(<<APdf, PartialDir(<<"c">>, <<APdf, BPdf>>, 1), Dir(<<"b">>, <<APdf>>, TRUE), ATxt>>)

\* ResultCap matching files, then a matching and a non-matching directory
CapThenDirs == Root(Many(ResultCap) \o <<Dir(<<"a">>, <<APdf>>, TRUE), Dir(<<"c">>, <<APdf>>, TRUE)>>)

Trees ==
  { ExampleTree, NestedTree, FailingTree, CapThenDirs,
    Root(<<Dir(<<"c">>, <<PartialDir(<<"a">>, <<APdf, ATxt>>, 1), BPdf>>, TRUE), BPdf>>),
    Root(Many(ResultCap - 1) \o <<Dir(<<"a">>, <<APdf>>, TRUE), ATxt>>),
    Root(<<File(<<"A", ".", "PDF">>, Late, FALSE), Dir(<<"b">>, <<APdf>>, FALSE), ATxt>>),
    Root(<<Dir(<<"a">>, <<>>, TRUE), File(<<"a">>, Mid, FALSE), File(<<"b", ".", "a">>, Early, TRUE)>>),
    Dir(<<>>, <<APdf>>, FALSE) }
  \cup {Root(Many(n)) : n \in (ResultCap - 1)..(ResultCap + MaxExtra)}
  \cup {Root(<<Dir(<<"a">>, Many(ResultCap - 1), TRUE), Dir(<<"b">>, <<APdf, BPdf>>, TRUE), ATxt>>)}

Filters ==
  [query : {<<"a">>, <<"b">>, <<"pdf">>}, ext : {<<>>, <<"pdf">>, <<"txt">>},
   from : {NullDate, SomeDate(Mid)}, to : {NullDate, SomeDate(EndOfDay(Mid))}]

InitSearch ==
  /\ ResolveIdle
  /\ rootHandle = None /\ stored = None /\ focusFile = NoFocus /\ lastModel = None
  /\ loggedIn = TRUE /\ FocusIdle
  /\ tree \in Trees
  /\ filter \in Filters
  /\ found = NotSearched
  /\ apiSupported = TRUE /\ perm = "granted"
  /\ CallIdle
  /\ ServerIdle
  /\ ParseIdle
  /\ OverlapIdle

\* searchDirectory(tree, query, ext, from, to, [], '')
Search ==
  /\ ~found.done
  /\ LET r == searchDirectory(tree, filter.query, filter.ext, filter.from, filter.to)
     IN  found' = [done |-> TRUE, threw |-> r.threw, st |-> r.st]
  /\ UNCHANGED <<overlapVars, parseVars, serverVars, resolveVars, focusVars, sessionVars, tree, filter, envVars, callVars>>

NextSearch == Search

SpecSearch == InitSearch /\ [][NextSearch]_vars

\* C10: a search never returns more than ResultCap entries, and no entry is
\* visited once the result holds ResultCap entries.
C10_ResultCap ==
  found.done => /\ Len(found.st.results) <= ResultCap
                /\ found.st.late = 0

\* ---------------------------------------------------------------- claims C11..C15

RECURSIVE Reach(_, _)
\* the entries the iterations yield anywhere below a directory, with their paths
Reach(dir, path) ==
  UNION { LET e == dir.children[i]
              p == IF path # <<>> THEN path \o <<"/">> \o e.name ELSE e.name
          IN  {[path |-> p, node |-> e]} \cup (IF e.kind = "directory" THEN Reach(e, p) ELSE {})
          : i \in 1..dir.delivered }

Yielded == Reach(tree, <<>>)

AsResult(n) == [kind |-> n.node.kind, path |-> n.path]

ResultSet == {found.st.results[i] : i \in 1..Len(found.st.results)}

UnderCap == Len(found.st.results) < ResultCap

NameMatches(n) == Includes(Lower(n.node.name), filter.query)

\* the name ends in a dot followed by the extension, which holds no dot itself
HasExt(n, ext) ==
  LET name == Lower(n.node.name)
      k    == Len(name) - Len(ext)
  IN  /\ k >= 1
      /\ name[k] = "."
      /\ SubSeq(name, k + 1, Len(name)) = ext
      /\ \A i \in 1..Len(ext) : ext[i] # "."

InRange(n) ==
  /\ ~(filter.from.set /\ Before(n.node.modified, filter.from))
  /\ ~(filter.to.set /\ Before(filter.to, n.node.modified))

NoDateFilter == ~filter.from.set /\ ~filter.to.set

IsFile(n) == n.node.kind = "file"

\* C11: once the results hold ResultCap entries, no further sub-directory is
\* entered, whether or not its name matches the query.
C11_NoDescentAtCap == found.done => found.st.lateEntered = 0

C11_Witness ==
  /\ found.done
  /\ tree = CapThenDirs
  /\ filter = [query |-> <<"a">>, ext |-> <<>>, from |-> NullDate, to |-> NullDate]
  /\ Len(found.st.results) = ResultCap + 1
  /\ found.st.results[ResultCap + 1] = [kind |-> "directory", path |-> <<"a">>]
  /\ found.st.visited = ResultCap + 2

\* C12 as stated: with an extension filter, the result is exactly the set of
\* leaves at any depth whose name contains the query and whose extension
\* equals the filter.
C12_ExactlyTheLeaves ==
  (found.done /\ filter.ext # <<>> /\ NoDateFilter /\ UnderCap) =>
    ResultSet = {AsResult(n) : n \in {m \in Yielded :
                   IsFile(m) /\ NameMatches(m) /\ HasExt(m, filter.ext)}}

\* C12 amended: with an extension filter (no date filter, cap not reached), the
\* result is exactly the leaves at any depth whose name contains the query and
\* whose extension equals the filter, together with every directory whose name
\* contains the query; on a.pdf, a.txt and b/ holding b.pdf, with ext = pdf and
\* a query both pdf names contain, that is {a.pdf, b/b.pdf}.
C12_LeavesAndMatchingDirs ==
  (found.done /\ filter.ext # <<>> /\ NoDateFilter /\ UnderCap) =>
    /\ ResultSet = {AsResult(n) : n \in {m \in Yielded :
                      /\ NameMatches(m)
                      /\ IsFile(m) => HasExt(m, filter.ext)}}
    /\ (tree = ExampleTree /\ filter.query = <<"pdf">> /\ filter.ext = <<"pdf">>) =>
         ResultSet = {[kind |-> "file", path |-> <<"a", ".", "pdf">>],
                      [kind |-> "file", path |-> <<"b", "/", "b", ".", "pdf">>]}

C12_Witness ==
  /\ found.done
  /\ tree = ExampleTree
  /\ filter = [query |-> <<"pdf">>, ext |-> <<"pdf">>, from |-> NullDate, to |-> NullDate]
  /\ found.st.results = <<[kind |-> "file", path |-> <<"a", ".", "pdf">>],
                          [kind |-> "file", path |-> <<"b", "/", "b", ".", "pdf">>]>>

\* C13: with a date-range filter set, a name-matching leaf whose modified
\* timestamp cannot be read is not added to the results.
C13_UnreadableLeafSkipped ==
  (found.done /\ ~NoDateFilter) =>
    \A n \in Yielded : (IsFile(n) /\ ~n.node.readable) => AsResult(n) \notin ResultSet

\* C14: a failure while reading a sub-directory never aborts the search: only
\* a failure of the root's own listing makes the search throw, every entry any
\* directory yields is visited (while the cap is not reached), and every entry
\* that passes the filters, admitted before or after a failure, is in the results.
C14_FailuresContained ==
  found.done =>
    /\ found.threw <=> ~tree.listable
    /\ UnderCap =>
         /\ found.st.visited = Cardinality(Yielded)
         /\ \A n \in Yielded :
              (NameMatches(n) /\ (IsFile(n) => InRange(n) /\ (filter.ext # <<>> => HasExt(n, filter.ext))))
                => AsResult(n) \in ResultSet

C14_Witness ==
  /\ found.done /\ ~found.threw
  /\ tree = FailingTree
  /\ filter = [query |-> <<"a">>, ext |-> <<>>, from |-> NullDate, to |-> NullDate]
  /\ found.st.results = <<[kind |-> "file", path |-> <<"a", ".", "pdf">>],
                          [kind |-> "file", path |-> <<"c", "/", "a", ".", "pdf">>],
                          [kind |-> "file", path |-> <<"b", "/", "a", ".", "pdf">>],
                          [kind |-> "file", path |-> <<"a", ".", "txt">>]>>

\* C15: while the cap is not reached, every leaf that matches name, extension
\* and date is in the results whatever the names of its ancestors, and a
\* directory whose name does not contain the query is not in the results.
C15_FiltersNarrowResults ==
  (found.done /\ UnderCap) =>
    \A n \in Yielded :
      /\ (IsFile(n) /\ NameMatches(n) /\ InRange(n)
            /\ (filter.ext # <<>> => HasExt(n, filter.ext))) => AsResult(n) \in ResultSet
      /\ (~IsFile(n) /\ ~NameMatches(n)) => AsResult(n) \notin ResultSet

C15_Witness ==
  /\ found.done
  /\ tree = NestedTree
  /\ filter = [query |-> <<"b">>, ext |-> <<"pdf">>, from |-> SomeDate(Mid), to |-> NullDate]
  /\ found.st.results = <<[kind |-> "file", path |-> <<"c", "/", "a", "/", "b", ".", "pdf">>],
                          [kind |-> "file", path |-> <<"b", ".", "pdf">>]>>

\* ================================================================ focus workflow

MaxContent == 5   \* tokens of session content beyond which nothing more is added

\* files /api/focus/find can return, and the folder id it returns with them
InMobiusFile ==
  [id |-> "d1", name |-> "notes.md", mimeType |-> "text/markdown", inMobius |-> TRUE,
   path |-> "Mobius"]

OutsideFile ==
  [id |-> "d2", name |-> "notes.txt", mimeType |-> "text/plain", inMobius |-> FALSE,
   path |-> None]

FindReplies == {<<>>, <<InMobiusFile>>, <<OutsideFile>>, <<InMobiusFile, OutsideFile>>}

Folder == "mobius"

\* contents /api/focus/read and /api/focus/copy can return
Contents == {<<>>, <<"old">>}

\* how a fetch ends: a reply without error, a reply with data.error, or a
\* rejected fetch / unparsable reply
Replies == {"ok", "error", "throw"}

FocusArgs ==
  { <<>>, <<"end">>, <<SP, "End">>, <<"update">>, <<"Update", SP>>,
    <<"add">>, <<"add", SP, "hello">>, <<"ADD", NL, "hello">>, <<"add", ":", "x">>,
    <<"add", TAB, "hello">>,
    <<"notes">>, <<"address">> }

Request(api, id, content) == [api |-> api, id |-> id, content |-> content]

\* new Date().toLocaleString('en-AU') in brackets
Stamp == "[ts]"

\* handleFocus add: const updated = ...
Updated(content, t) ==
  (IF content # <<>> THEN content \o <<NL, NL>> ELSE <<>>) \o <<Stamp, NL>> \o t

IsAdd_NeedsText(trimmed) ==
  /\ Len(trimmed) > 1
  /\ toLowerCase(trimmed[1]) = "add"
  /\ trimmed[2] \in {SP, NL}

\* handleFocus: the test that selects the add branch
IsAdd(trimmed) ==
  /\ trimmed # <<>>
  /\ toLowerCase(trimmed[1]) = "add"
  /\ Len(trimmed) = 1 \/ trimmed[2] \in {SP, NL}

EndFocus_KeepsCopies(f) == IF f.originalId = None THEN NoFocus ELSE f

\* handleFocus end: focusFile = null
EndFocus(f) == NoFocus

MayUpdate_AnySession(f) == f.present

\* handleFocus update: the two guards before the write to the original
MayUpdate(f) == f.present /\ f.originalId # None

ContentAfterAdd_Eager(r, old, updated) == updated

\* handleFocus add: focusFile.content once the append request has ended as r
ContentAfterAdd(r, old, updated) == IF r = "ok" THEN updated ELSE old

NewFocus_KeepsOriginal(file, folderId) ==
  [present |-> TRUE, id |-> file.id, name |-> file.name, mimeType |-> "text/plain",
   content |-> <<>>, folderId |-> folderId, originalId |-> "d2", path |-> None]

\* handleFocus create: focusFile = { id: createData.file.id, ... originalId: null }
NewFocus(file, folderId) ==
  [present |-> TRUE, id |-> file.id, name |-> file.name, mimeType |-> "text/plain",
   content |-> <<>>, folderId |-> folderId, originalId |-> None, path |-> None]

Selected_AlwaysCopy(file, folderId, content) ==
  [present |-> TRUE, id |-> "c2", name |-> file.name, mimeType |-> "text/plain",
   content |-> content, folderId |-> folderId, originalId |-> file.id, path |-> file.path]

\* focusSelectFile: focusFile for a file read in place or copied in
Selected(file, folderId, content) ==
  IF file.inMobius
  THEN [present |-> TRUE, id |-> file.id, name |-> file.name, mimeType |-> file.mimeType,
        content |-> content, folderId |-> folderId, originalId |-> None, path |-> file.path]
  ELSE [present |-> TRUE, id |-> "c2", name |-> file.name, mimeType |-> "text/plain",
        content |-> content, folderId |-> folderId, originalId |-> file.id, path |-> file.path]

\* copyToMobiusFolder: the content given to the copy and returned with it; a
\* failed read of the original is swallowed and leaves it empty
copyToMobiusFolder(orig, readOk) == IF readOk THEN orig ELSE <<>>

\* the content /api/focus/read or /api/focus/copy returns for a file holding doc
ServedContent(file, doc, readOk) ==
  IF file.inMobius THEN doc ELSE copyToMobiusFolder(doc, readOk)

\* focusSelectFile: the request it sends for a file
SelectRequest(file) ==
  Request(IF file.inMobius THEN "read" ELSE "copy", file.id, <<>>)

\* the file /api/focus/create returns for a filename
CreatedFile == [id |-> "n1", name |-> "new.md"]

\* the variables of the access machine, which the focus workflow leaves alone
accessVars == <<cause, picked, haBefore, haRet, eaRet, traversed, eaCall, calls>>

\* the message for a request that ended without success
Failure(r, onError) == IF r = "error" THEN onError ELSE "error"

NotLoggedIn_Ignored(userId) == FALSE

\* handleFocus: if (!userId), the test that refuses the command
NotLoggedIn(userId) == ~userId

\* handleFocus(args, output, outputEl), called by runCommand, up to its first
\* await or its return
FocusCommand(a) ==
  /\ pc = "idle"
  /\ LET trimmed == Trim(a)
         lower   == Lower(trimmed)
         t       == TrimStart(SubSeq(trimmed, 2, Len(trimmed)))
     IN  /\ (IsAdd(trimmed) /\ focusFile.present) => Len(focusFile.content) <= MaxContent
         /\ cmd' = "focus" /\ args' = a /\ invoked' = <<"focus">>
         /\ fprev' = focusFile
         /\ IF NotLoggedIn(loggedIn) THEN
              /\ out' = <<"not_logged_in">> /\ pc' = "idle" /\ remote' = <<>>
              /\ UNCHANGED <<focusFile, fnew, created>>
            ELSE IF lower = <<"end">> THEN
              /\ focusFile' = EndFocus(focusFile) /\ created' = FALSE
              /\ out' = <<"ended">> /\ pc' = "idle" /\ remote' = <<>>
              /\ UNCHANGED fnew
            ELSE IF lower = <<"update">> THEN
              /\ IF ~focusFile.present
                 THEN out' = <<"no_focus">> /\ pc' = "idle" /\ remote' = <<>>
                 ELSE IF ~MayUpdate(focusFile)
                 THEN out' = <<"no_original">> /\ pc' = "idle" /\ remote' = <<>>
                 ELSE /\ out' = <<"updating">>
                      /\ remote' = <<Request("update-original", focusFile.originalId,
                                             focusFile.content)>>
                      /\ pc' = "fo_update"
              /\ UNCHANGED <<focusFile, fnew, created>>
            ELSE IF IsAdd(trimmed) THEN
              /\ IF ~focusFile.present
                 THEN out' = <<"no_focus">> /\ pc' = "idle" /\ remote' = <<>> /\ UNCHANGED fnew
                 ELSE IF t = <<>>
                 THEN out' = <<"usage_add">> /\ pc' = "idle" /\ remote' = <<>> /\ UNCHANGED fnew
                 ELSE /\ out' = <<"saving">>
                      /\ fnew' = Updated(focusFile.content, t)
                      /\ remote' = <<Request("append", focusFile.id,
                                             Updated(focusFile.content, t))>>
                      /\ pc' = "fo_add"
              /\ UNCHANGED <<focusFile, created>>
            ELSE IF trimmed = <<>> THEN
              /\ out' = <<"usage">> /\ pc' = "idle" /\ remote' = <<>>
              /\ UNCHANGED <<focusFile, fnew, created>>
            ELSE
              /\ out' = <<"searching">>
              /\ remote' = <<Request("find", None, trimmed)>>
              /\ pc' = "fo_find"
              /\ UNCHANGED <<focusFile, fnew, created>>
  /\ ret' = IF pc' = "idle" THEN "true" ELSE "pending"
  /\ pendingList' = IF out' \in {<<"ended">>, <<"searching">>} THEN FALSE ELSE pendingList
  /\ UNCHANGED <<overlapVars, parseVars, serverVars, resolveVars, rootHandle, stored, lastModel, searchVars, envVars, accessVars,
                 loggedIn, listed, fsel>>

FocusUpdateReply_Detaches ==
  /\ pc = "fo_update"
  /\ \E r \in Replies :
       /\ out' = Append(out, IF r = "ok" THEN "updated" ELSE Failure(r, "update_failed"))
       /\ focusFile' = IF r = "ok" THEN [focusFile EXCEPT !.originalId = None] ELSE focusFile
  /\ pc' = "idle" /\ ret' = "true"
  /\ UNCHANGED <<overlapVars, parseVars, serverVars, resolveVars, rootHandle, stored, lastModel, searchVars, envVars, accessVars,
                 cmd, args, invoked, focusVars>>

\* handleFocus update: the reply of /api/focus/update-original
FocusUpdateReply ==
  /\ pc = "fo_update"
  /\ \E r \in Replies :
       out' = Append(out, IF r = "ok" THEN "updated" ELSE Failure(r, "update_failed"))
  /\ pc' = "idle" /\ ret' = "true"
  /\ UNCHANGED <<overlapVars, parseVars, serverVars, resolveVars, sessionVars, searchVars, envVars, accessVars, cmd, args, invoked,
                 focusVars>>

\* handleFocus add: the reply of /api/focus/append
FocusAddReply ==
  /\ pc = "fo_add"
  /\ \E r \in Replies :
       IF r = "ok" /\ ~focusFile.present
       THEN \* focusFile is null by now: the assignment throws, the catch reports
            /\ out' = Append(out, "error")
            /\ UNCHANGED <<focusFile, synced>>
       ELSE /\ focusFile' = [focusFile EXCEPT !.content = ContentAfterAdd(r, @, fnew)]
            /\ synced' = IF r = "ok" /\ remote[Len(remote)].id = focusFile.id THEN fnew
                          ELSE synced
            /\ out' = Append(out, IF r = "ok" THEN "saved" ELSE Failure(r, "save_failed"))
  /\ pc' = "idle" /\ ret' = "true"
  /\ UNCHANGED <<bpc, bsel, original, parseVars, serverVars, resolveVars, rootHandle, stored, lastModel, searchVars, envVars, accessVars,
                 cmd, args, invoked, focusVars>>

\* handleFocus search: the reply of /api/focus/find, up to the next await or return
FocusFindReply ==
  /\ pc = "fo_find"
  /\ \E r \in Replies : \E files \in FindReplies :
       IF r # "ok" THEN
         /\ out' = Append(out, Failure(r, "find_failed"))
         /\ pc' = "idle" /\ ret' = "true"
         /\ UNCHANGED <<remote, listed, pendingList, fsel>>
       ELSE IF Len(files) = 0 THEN
         /\ out' = Append(out, "creating")
         /\ remote' = Append(remote, Request("create", None, Trim(args)))
         /\ pc' = "fo_create"
         /\ UNCHANGED <<ret, listed, pendingList, fsel>>
       ELSE IF Len(files) = 1 THEN
         /\ fsel' = files[1]
         /\ out' = Append(out, "loading")
         /\ remote' = Append(remote, SelectRequest(files[1]))
         /\ pc' = "fo_select"
         /\ UNCHANGED <<ret, listed, pendingList>>
       ELSE
         /\ listed' = files /\ pendingList' = TRUE
         /\ out' = Append(out, "list")
         /\ pc' = "idle" /\ ret' = "true"
         /\ UNCHANGED <<remote, fsel>>
  /\ UNCHANGED <<overlapVars, parseVars, serverVars, resolveVars, sessionVars, searchVars, envVars, accessVars, cmd, args, invoked,
                 loggedIn, fprev, fnew, created>>

FocusCreateReply_ClearsOnFailure ==
  /\ pc = "fo_create"
  /\ \E r \in Replies :
       IF r = "ok"
       THEN /\ focusFile' = NewFocus(CreatedFile, Folder)
            /\ created' = TRUE
            /\ synced' = <<>>
            /\ out' = Append(out, "focused_new")
       ELSE /\ out' = Append(out, Failure(r, "create_failed"))
            /\ focusFile' = NoFocus
            /\ created' = FALSE
            /\ UNCHANGED synced
  /\ pc' = "idle" /\ ret' = "true"
  /\ UNCHANGED <<bpc, bsel, original, parseVars, serverVars, resolveVars, rootHandle, stored, lastModel, searchVars, envVars, accessVars,
                 cmd, args, invoked, loggedIn, remote, listed, pendingList, fprev, fsel, fnew>>

\* handleFocus search with no match: the reply of /api/focus/create
FocusCreateReply ==
  /\ pc = "fo_create"
  /\ \E r \in Replies :
       IF r = "ok"
       THEN /\ focusFile' = NewFocus(CreatedFile, Folder)
            /\ created' = TRUE
            /\ synced' = <<>>
            /\ out' = Append(out, "focused_new")
       ELSE /\ out' = Append(out, Failure(r, "create_failed"))
            /\ UNCHANGED <<focusFile, created, synced>>
  /\ pc' = "idle" /\ ret' = "true"
  /\ UNCHANGED <<bpc, bsel, original, parseVars, serverVars, resolveVars, rootHandle, stored, lastModel, searchVars, envVars, accessVars,
                 cmd, args, invoked, loggedIn, remote, listed, pendingList, fprev, fsel, fnew>>

\* focusSelectFile: the reply of /api/focus/read or /api/focus/copy
FocusSelectReply ==
  /\ pc = "fo_select"
  /\ \E r \in Replies : \E o \in Contents : \E readOk \in BOOLEAN :
       IF r = "ok"
       THEN LET c == ServedContent(fsel, o, readOk) IN
            /\ focusFile' = Selected(fsel, Folder, c)
            /\ created' = FALSE
            /\ pendingList' = FALSE
            /\ original' = IF fsel.inMobius THEN <<>> ELSE o
            /\ synced' = c
            /\ out' = Append(out, "focused")
       ELSE /\ out' = Append(out, Failure(r, IF fsel.inMobius THEN "read_failed" ELSE "copy_failed"))
            /\ UNCHANGED <<focusFile, created, pendingList, original, synced>>
  /\ pc' = "idle"
  /\ ret' = IF cmd = "focus" THEN "true" ELSE ret
  /\ UNCHANGED <<bpc, bsel, parseVars, serverVars, resolveVars, rootHandle, stored, lastModel, searchVars, envVars, accessVars,
                 cmd, args, invoked, loggedIn, remote, listed, fprev, fsel, fnew>>

\* the user clicks entry i of the multiple-match list: focusSelectFile(file, ...)
ClickFile(i) ==
  /\ pc = "idle"
  /\ i \in 1..Len(listed)
  /\ cmd' = "click" /\ args' = <<>> /\ invoked' = <<>> /\ ret' = None
  /\ fprev' = focusFile
  /\ fsel' = listed[i]
  /\ out' = <<"loading">>
  /\ remote' = <<SelectRequest(listed[i])>>
  /\ pc' = "fo_select"
  /\ UNCHANGED <<overlapVars, parseVars, serverVars, resolveVars, sessionVars, searchVars, envVars, accessVars, loggedIn, listed,
                 pendingList, fnew, created>>

\* getAuth('mobius_user_id') changes between two commands (the user logs in
\* or out); the record of the last command is not kept across the change
AuthChange ==
  /\ pc = "idle"
  /\ loggedIn' = ~loggedIn
  /\ cmd' = None /\ args' = <<>> /\ ret' = None /\ invoked' = <<>> /\ out' = <<>>
  /\ remote' = <<>> /\ fprev' = NoFocus /\ fsel' = NoFile /\ fnew' = <<>>
  /\ UNCHANGED <<overlapVars, parseVars, serverVars, resolveVars, sessionVars, searchVars, envVars, accessVars, pc, listed, pendingList, created>>

InitFocus ==
  /\ ResolveIdle
  /\ SearchIdle
  /\ CallIdle
  /\ FocusIdle
  /\ rootHandle = None /\ stored = None /\ focusFile = NoFocus /\ lastModel = None
  /\ apiSupported = TRUE /\ perm = "prompt"
  /\ loggedIn \in BOOLEAN
  /\ ServerIdle
  /\ ParseIdle
  /\ OverlapIdle

NextFocus ==
  \/ \E a \in FocusArgs : FocusCommand(a)
  \/ FocusUpdateReply
  \/ FocusAddReply
  \/ FocusFindReply
  \/ FocusCreateReply
  \/ FocusSelectReply
  \/ \E i \in 1..2 : ClickFile(i)
  \/ AuthChange
  \/ Reload

SpecFocus == InitFocus /\ [][NextFocus]_vars

\* ---------------------------------------------------------------- claims C16..C20

LastOut == IF out = <<>> THEN None ELSE out[Len(out)]

UpdateCommand == cmd = "focus" /\ Lower(Trim(args)) = <<"update">>

AddCommand == cmd = "focus" /\ IsAdd(Trim(args))

\* a focus search (or the usage error of an empty name), or a click on the list
SearchCommand ==
  \/ cmd = "click"
  \/ /\ cmd = "focus"
     /\ ~IsAdd(Trim(args))
     /\ Lower(Trim(args)) \notin {<<"end">>, <<"update">>}

\* C16: a focus search for a non-empty name with zero matches creates a new
\* document; when the create succeeds the session is Focused on it with empty
\* content and no originalId, and a following focus: update on that session
\* fails with the "no original" message.
C16_CreatedThenNoOriginal ==
  /\ (pc = "idle" /\ cmd = "focus" /\ LastOut = "focused_new") =>
       /\ Trim(args) # <<>>
       /\ remote = <<Request("find", None, Trim(args)), Request("create", None, Trim(args))>>
       /\ focusFile.present /\ focusFile.id = CreatedFile.id
       /\ focusFile.content = <<>> /\ focusFile.originalId = None
       /\ created
  /\ created => focusFile.present /\ focusFile.originalId = None
  /\ (created /\ UpdateCommand /\ loggedIn) =>
       pc = "idle" /\ out = <<"no_original">> /\ remote = <<>>

C16_Witness ==
  /\ created /\ UpdateCommand
  /\ out = <<"no_original">>
  /\ focusFile.id = "n1" /\ focusFile.content = <<Stamp, NL, "hello">>

\* C17: focus: update sends a write to the original only when a Focus Session
\* exists and its originalId is present, and what it writes is the session's
\* in-memory content; otherwise it sends no request.
C17_UpdateWritesSessionContent ==
  UpdateCommand =>
    /\ focusFile.content = fprev.content
    /\ remote = IF loggedIn /\ fprev.present /\ fprev.originalId # None
                THEN <<Request("update-original", fprev.originalId, fprev.content)>>
                ELSE <<>>

C17_Witness ==
  /\ UpdateCommand /\ pc = "idle"
  /\ out = <<"updating", "updated">>
  /\ remote = <<Request("update-original", "d2", <<"old", NL, NL, Stamp, NL, "hello">>)>>

\* C18: focus: add changes the in-memory content only after the persist call
\* has returned success; when it fails (error reply or thrown failure) the
\* content is what it was before the add.
C18_AddAfterPersist ==
  AddCommand =>
    /\ pc = "fo_add" => focusFile = fprev
    /\ pc = "idle" =>
         IF LastOut = "saved"
         THEN /\ fprev.present
              /\ remote = <<Request("append", fprev.id, fnew)>>
              /\ focusFile = [fprev EXCEPT !.content = fnew]
              /\ focusFile.content # fprev.content
         ELSE focusFile = fprev

C18_Witness ==
  /\ AddCommand /\ pc = "idle"
  /\ out = <<"saving", "save_failed">>
  /\ remote = <<Request("append", "d1", <<"old", NL, NL, Stamp, NL, "hello">>)>>
  /\ focusFile.content = <<"old">>

\* C19: an existing Focus Session is replaced only when a search or a
\* selection reaches Focused: a failed find, create, read or copy, a pending
\* multiple-match list and the usage error of an empty name leave it as it was.
C19_SessionKeptUntilFocused ==
  SearchCommand =>
    \/ focusFile = fprev
    \/ /\ pc = "idle"
       /\ LastOut \in {"focused", "focused_new"}
       /\ focusFile.present

C19_Witness ==
  /\ cmd = "focus" /\ pc = "idle"
  /\ out = <<"searching", "creating", "create_failed">>
  /\ fprev.present /\ fprev.originalId = "d2"
  /\ focusFile = fprev

\* C20: focus: update leaves the Focus Session (id, name, content, originalId,
\* folder) unchanged in every outcome: success, remote failure, no session,
\* no original.
C20_UpdateLeavesSession ==
  UpdateCommand => focusFile = fprev /\ created = (fprev.present /\ created)

C20_Witness ==
  /\ UpdateCommand /\ pc = "idle"
  /\ out = <<"updating", "error">>
  /\ focusFile = fprev /\ focusFile.originalId = "d2"

\* ---------------------------------------------------------------- claims C21..C23

EndCommand == cmd = "focus" /\ Lower(Trim(args)) = <<"end">>

\* C21 as stated: after focus: end the session is absent whatever the state
\* before was, and no remote read or write is issued.
C21_EndDiscardsAlways == EndCommand => ~focusFile.present /\ remote = <<>>

\* C21 amended: for a logged-in user focus: end leaves the session absent
\* whatever it was before; for a user who is not logged in the command is
\* refused and the session stays as it was; no request is issued either way.
C21_EndDiscardsWhenLoggedIn ==
  EndCommand =>
    /\ pc = "idle" /\ remote = <<>>
    /\ IF loggedIn
       THEN ~focusFile.present /\ ~created /\ out = <<"ended">>
       ELSE focusFile = fprev /\ out = <<"not_logged_in">>

C21_Witness ==
  /\ EndCommand /\ loggedIn
  /\ fprev.present /\ fprev.originalId = "d2" /\ fprev.content # <<>>
  /\ focusFile = NoFocus

Apis == {remote[i].api : i \in 1..Len(remote)}

\* C22: on a selection (a click, or the automatic one of a single match) of a
\* document in the managed folder the session has no originalId and the
\* content is read, no copy made; otherwise the document is copied, the
\* session's id is the copy's and originalId is the id of the selected document.
C22_ReadOrCopy ==
  (pc = "idle" /\ LastOut = "focused") =>
    /\ cmd \in {"focus", "click"}
    /\ focusFile.present
    /\ IF fsel.inMobius
       THEN /\ remote[Len(remote)] = Request("read", fsel.id, <<>>)
            /\ "copy" \notin Apis
            /\ focusFile.id = fsel.id
            /\ focusFile.originalId = None
       ELSE /\ remote[Len(remote)] = Request("copy", fsel.id, <<>>)
            /\ "read" \notin Apis
            /\ focusFile.id # fsel.id
            /\ focusFile.originalId = fsel.id

C22_Witness ==
  /\ pc = "idle" /\ cmd = "focus" /\ LastOut = "focused"
  /\ fsel = OutsideFile
  /\ remote = <<Request("find", None, <<"notes">>), Request("copy", "d2", <<>>)>>
  /\ focusFile.id = "c2" /\ focusFile.originalId = "d2"
  /\ fprev.present /\ fprev.originalId = None

\* the argument is add alone, or add followed by the given kind of separator
AddThen(seps) ==
  LET trimmed == Trim(args)
  IN  /\ trimmed # <<>>
      /\ toLowerCase(trimmed[1]) = "add"
      /\ Len(trimmed) = 1 \/ trimmed[2] \in seps

NoSearch ==
  /\ pc \notin {"fo_find", "fo_create", "fo_select"}
  /\ Apis \cap {"find", "create", "read", "copy"} = {}

\* C23 as stated: the arguments end, update, add and add followed by white
\* space and a text are never treated as a file name: no document search is
\* issued and no document created, also when no session is focused.
C23_KeywordsNeverSearched ==
  (cmd = "focus" /\ (EndCommand \/ UpdateCommand \/ AddThen({SP, NL, TAB}))) => NoSearch

\* C23 amended: the arguments end, update, add and add followed by a space or
\* a newline are never treated as a file name (no search, no create, also with
\* no session focused); add followed by any other character, a tab included,
\* is a file name.
C23_SpaceOrNewlineOnly ==
  cmd = "focus" =>
    /\ (EndCommand \/ UpdateCommand \/ AddThen({SP, NL})) => NoSearch
    /\ (loggedIn /\ AddThen({TAB}) /\ Len(Trim(args)) > 1) =>
         remote # <<>> /\ remote[1] = Request("find", None, Trim(args))

C23_Witness ==
  /\ cmd = "focus" /\ args = <<"add">> /\ loggedIn
  /\ ~fprev.present /\ ~focusFile.present
  /\ out = <<"no_focus">> /\ remote = <<>>

\* ---------------------------------------------------------------- overlapping operations

\* the user clicks entry i of the list while the append request of an add is
\* in flight: focusSelectFile(file, ...) up to its fetch
OverlapClick(i) ==
  /\ pc = "fo_add" /\ bpc = "idle"
  /\ i \in 1..Len(listed)
  /\ bpc' = "select" /\ bsel' = listed[i]
  /\ UNCHANGED <<resolveVars, sessionVars, searchVars, envVars, callVars, focusVars,
                 serverVars, parseVars, original, synced>>

\* focusSelectFile: the reply of /api/focus/read or /api/focus/copy for that click
OverlapSelectReply ==
  /\ bpc = "select"
  /\ \E r \in Replies : \E o \in Contents : \E readOk \in BOOLEAN :
       IF r = "ok"
       THEN LET c == ServedContent(bsel, o, readOk) IN
            /\ focusFile' = Selected(bsel, Folder, c)
            /\ created' = FALSE /\ pendingList' = FALSE
            /\ original' = IF bsel.inMobius THEN <<>> ELSE o
            /\ synced' = c
       ELSE UNCHANGED <<focusFile, created, pendingList, original, synced>>
  /\ bpc' = "idle"
  /\ UNCHANGED <<resolveVars, rootHandle, stored, lastModel, searchVars, envVars, callVars,
                 loggedIn, remote, listed, fprev, fsel, fnew, serverVars, parseVars, bsel>>

\* 'focus: end' is entered while the append request of an add is in flight
OverlapEnd ==
  /\ pc = "fo_add" /\ loggedIn /\ focusFile.present
  /\ focusFile' = EndFocus(focusFile)
  /\ created' = FALSE /\ pendingList' = FALSE
  /\ UNCHANGED <<resolveVars, rootHandle, stored, lastModel, searchVars, envVars, callVars,
                 loggedIn, remote, listed, fprev, fsel, fnew, serverVars, parseVars,
                 overlapVars>>

NextOverlap ==
  \/ NextFocus
  \/ \E i \in 1..2 : OverlapClick(i)
  \/ OverlapSelectReply
  \/ OverlapEnd

SpecOverlap == InitFocus /\ [][NextOverlap]_vars

\* ---------------------------------------------------------------- claims C36..C40

\* C36: a selection changes the Focus Session only while the latest focus
\* search is pending on its candidate list; after focus: end, or after a later
\* search has focused a document, a click on an entry of an earlier list
\* neither creates nor replaces the session.
C36_StaleSelectionIgnored ==
  [][(pc = "fo_select" /\ cmd = "click" /\ focusFile' # focusFile) => pendingList]_vars

\* C37: the in-memory content of the Focus Session is content that was read
\* from, or written with success to, the session's own managed document, also
\* when the session was ended or replaced while an add was in flight.
C37_ContentIsOwnDocuments == focusFile.present => focusFile.content = synced

\* C39: for every text that resolveAction classifies as a Command, runCommand
\* called with that keyword calls a registered handler or, for ask only,
\* returns false; it never throws for lack of a handler.
C39_ResolvedCommandsDispatch ==
  (evals > 0 /\ action.type = "command") =>
    /\ Dispatched(action.command) # "throw"
    /\ Dispatched(action.command) = "false" => action.command = "ask"

\* C40: when no user is logged in, a focus: command of any form (search, add,
\* update, end) leaves the Focus Session as it was and issues no remote call.
C40_LoggedOutFocusIsInert ==
  (cmd = "focus" /\ ~loggedIn) =>
    /\ pc = "idle" /\ remote = <<>>
    /\ focusFile = fprev
    /\ out = <<"not_logged_in">>

C40_Witness ==
  /\ cmd = "focus" /\ ~loggedIn
  /\ Lower(Trim(args)) = <<"update">>
  /\ fprev.present /\ fprev.originalId # None

RECURSIVE IsPrefix(_, _)
IsPrefix(p, s) ==
  IF p = <<>> THEN TRUE
  ELSE IF s = <<>> THEN FALSE
  ELSE Head(p) = Head(s) /\ IsPrefix(Tail(p), Tail(s))

\* C38: a successful focus: update of a session established by a copy writes
\* to the original a content that begins with the content the original had
\* when it was copied, also when the copy could not read the original.
C38_UpdateKeepsOriginal ==
  (cmd = "focus" /\ pc = "idle" /\ out = <<"updating", "updated">>)
    => IsPrefix(original, remote[Len(remote)].content)

\* ================================================================ provider chain (server)

MaxServed == 2

\* const MODEL_CHAIN of server.js
ServerModelChain == <<"groq", "gemini", "mistral">>

\* what one HTTP exchange with a provider can come to: a completion, a
\* completion whose text holds the characters "error" in double quotes, a JSON
\* body { error: { message } } without choices, or a rejected fetch
Exchanges == {"content", "quoted", "errbody", "transport"}

Resolves(model, kind) ==
  [threw |-> FALSE, value |-> [by |-> model, kind |-> kind], err |-> NoErr]
Rejects(model, kind) ==
  [threw |-> TRUE, value |-> NoReply, err |-> [by |-> model, kind |-> kind, wrapped |-> FALSE]]

\* askGroq: content || reasoning_content || JSON.stringify(data)
askGroq(x) == IF x = "transport" THEN Rejects("groq", "transport") ELSE Resolves("groq", x)

\* askGemini: throws on data.error, else returns the candidate's text
askGemini(x) ==
  IF x \in {"transport", "errbody"} THEN Rejects("gemini", x) ELSE Resolves("gemini", x)

\* askMistral: content || JSON.stringify(data)
askMistral(x) ==
  IF x = "transport" THEN Rejects("mistral", "transport") ELSE Resolves("mistral", x)

\* result.includes('"error"')
IncludesError(value) == value.kind \in {"quoted", "errbody"}

\* JSON.parse(result) returns (a stringified body), or throws a SyntaxError
ParsesAsJSON(value) == value.kind = "errbody"

\* the body of the try block of the loop, for one provider
TryModel(model, x) ==
  IF model = "groq"
  THEN LET result == askGroq(x) IN
       IF ~result.threw /\ IncludesError(result.value)
       THEN IF ParsesAsJSON(result.value)
            THEN Rejects("groq", "errbody")    \* parsed.error is set: throw
            ELSE Rejects("groq", "syntax")     \* JSON.parse threw
       ELSE result
  ELSE IF model = "gemini" THEN askGemini(x)
  ELSE askMistral(x)

\* MODEL_CHAIN.indexOf(startModel), 0-based, -1 when absent
IndexOf(seq, m) ==
  IF \E i \in 1..Len(seq) : seq[i] = m
  THEN (CHOOSE i \in 1..Len(seq) : seq[i] = m /\ \A j \in 1..(i - 1) : seq[j] # m) - 1
  ELSE -1

ChainFrom_WholeChain(start) == ServerModelChain

\* startIdx !== -1 ? MODEL_CHAIN.slice(startIdx) : MODEL_CHAIN
ChainFrom(start) ==
  LET startIdx == IndexOf(ServerModelChain, start) IN
  IF startIdx # -1
  THEN SubSeq(ServerModelChain, startIdx + 1, Len(ServerModelChain))
  ELSE ServerModelChain

Fallback(model, start) == <<model, " (fallback from ", start, ")">>

\* model === startModel ? model : model + ' (fallback from ' + startModel + ')'
Label(model, start) == IF model = start THEN <<model>> ELSE Fallback(model, start)

Caught_KeepsFirst(prev, err) == IF prev = NoErr THEN err ELSE prev

\* catch (err) { lastErr = err }
Caught(prev, err) == err

After_SkipsOne(i) == i + 2

\* the for-of loop moves to the next provider of the chain
After(i) == i + 1

\* new Error('All models failed. Last error: ' + err.message)
Wrap(err) == [err EXCEPT !.wrapped = TRUE]

\* res.json({ reply, modelUsed })
Sent(reply, label) == [status |-> 200, reply |-> reply, modelUsed |-> label, error |-> NoErr]

\* res.status(500).json({ error: err.message })
Failed(err) == [status |-> 500, reply |-> NoReply, modelUsed |-> NoLabel, error |-> err]

\* what the code around a call of askWithFallback does with its outcome
ResponseTo(site, end, before) ==
  IF site = "direct" THEN before
  ELSE IF end.kind = "return" THEN Sent(end.reply, end.modelUsed)
  ELSE IF site \in {"else", "mistral"} THEN Failed(Wrap(end.err))
  ELSE Failed(end.err)

clientVars == <<resolveVars, sessionVars, searchVars, envVars, callVars, focusVars, parseVars,
               overlapVars>>

\* askWithFallback(messages, [], start) is entered from a call site
EnterChain(site, start) ==
  /\ caller' = site /\ startModel' = start /\ chain' = ChainFrom(start)
  /\ idx' = 1 /\ lastErr' = NoErr /\ cret' = NotCalled /\ spc' = "chain"

Starts == {"groq", "gemini", "mistral", "llama"}

\* askWithFallback called on its own with a start model
CallChain(start) ==
  /\ spc = "idle" /\ served < MaxServed
  /\ served' = served + 1
  /\ ASK' = None /\ hasImages' = FALSE /\ attempts' = <<>> /\ resp' = NotSent
  /\ EnterChain("direct", start)
  /\ UNCHANGED clientVars

\* one iteration of the loop of askWithFallback: the awaited provider call
\* settles; on success the call returns, on failure the loop goes on or,
\* after the last provider, the call throws lastErr
ChainAttempt(x) ==
  /\ spc = "chain"
  /\ LET model  == chain[idx]
         result == TryModel(model, x)
         err    == IF result.threw THEN Caught(lastErr, result.err) ELSE lastErr
         goesOn == result.threw /\ After(idx) <= Len(chain)
         end    == IF result.threw
                   THEN [kind |-> "throw", reply |-> NoReply, modelUsed |-> NoLabel, err |-> err]
                   ELSE [kind |-> "return", reply |-> result.value,
                         modelUsed |-> Label(model, startModel), err |-> NoErr]
     IN /\ attempts' = Append(attempts, [model |-> model, site |-> "chain", ok |-> ~result.threw,
                                         exchange |-> x])
        /\ lastErr' = err
        /\ IF goesOn
           THEN idx' = After(idx) /\ UNCHANGED <<spc, cret, resp>>
           ELSE idx' = idx /\ spc' = "idle" /\ cret' = end
                /\ resp' = ResponseTo(caller, end, resp)
  /\ UNCHANGED <<clientVars, ASK, hasImages, caller, startModel, chain, served>>

\* the server starts with no request received; the client side is at rest
InitServer ==
  /\ ResolveIdle
  /\ SearchIdle
  /\ CallIdle
  /\ FocusIdle
  /\ rootHandle = None /\ stored = None /\ focusFile = NoFocus /\ lastModel = None
  /\ apiSupported = TRUE /\ perm = "prompt" /\ loggedIn = TRUE
  /\ ServerIdle
  /\ ParseIdle
  /\ OverlapIdle

NextChain ==
  \/ \E start \in Starts : CallChain(start)
  \/ \E x \in Exchanges : ChainAttempt(x)

SpecChain == InitServer /\ [][NextChain]_vars

\* ---------------------------------------------------------------- the /ask handler

GoogleAsks == {"google_drive", "google_tasks", "google_calendar", "google_gmail"}

Asks == {"groq", "gemini", "mistral", "codestral", "websearch", "chat_history",
         "google_drive", "llama"}

NoChain ==
  /\ caller' = None /\ startModel' = None /\ chain' = <<>> /\ idx' = 0
  /\ lastErr' = NoErr /\ cret' = NotCalled

\* app.post('/ask') up to its first await: the branch taken on ASK and hasImages
Ask(a, img) ==
  /\ spc = "idle" /\ served < MaxServed
  /\ served' = served + 1
  /\ ASK' = a /\ hasImages' = img /\ attempts' = <<>>
  /\ IF a = "chat_history"
     THEN /\ resp' = Sent([by |-> "system", kind |-> "marker"], <<"system">>)
          /\ spc' = "idle" /\ NoChain
     ELSE IF a \in GoogleAsks THEN resp' = NotSent /\ spc' = "google" /\ NoChain
     ELSE IF a = "gemini" \/ img THEN resp' = NotSent /\ spc' = "gemini" /\ NoChain
     ELSE IF a \in {"mistral", "codestral"} THEN resp' = NotSent /\ spc' = "mistral" /\ NoChain
     ELSE IF a = "websearch" THEN resp' = NotSent /\ spc' = "tavily" /\ NoChain
     ELSE resp' = NotSent /\ EnterChain("else", a)
  /\ UNCHANGED clientVars

\* the Google helper awaited settles; modelUsed keeps its initial value ASK
GoogleReply(ok) ==
  /\ spc = "google"
  /\ spc' = "idle"
  /\ resp' = IF ok THEN Sent([by |-> ASK, kind |-> "content"], <<ASK>>)
             ELSE Failed([by |-> ASK, kind |-> "transport", wrapped |-> FALSE])
  /\ UNCHANGED <<clientVars, ASK, hasImages, caller, startModel, chain, idx, lastErr,
                 attempts, cret, served>>

\* the askGemini call of the gemini branch settles
GeminiReply(x) ==
  /\ spc = "gemini"
  /\ LET result == askGemini(x) IN
     /\ attempts' = Append(attempts, [model |-> "gemini", site |-> "ask", ok |-> ~result.threw,
                                      exchange |-> x])
     /\ IF result.threw
        THEN spc' = "mistral_g" /\ UNCHANGED resp
        ELSE spc' = "idle" /\ resp' = Sent(result.value, <<"gemini">>)
  /\ UNCHANGED <<clientVars, ASK, hasImages, caller, startModel, chain, idx, lastErr,
                 cret, served>>

\* the askMistral call of the gemini branch or of the mistral branch settles;
\* on failure both branches call askWithFallback(messages, [], 'groq')
MistralReply(x) ==
  /\ spc \in {"mistral_g", "mistral"}
  /\ LET result == askMistral(x) IN
     /\ attempts' = Append(attempts, [model |-> "mistral", site |-> "ask", ok |-> ~result.threw,
                                      exchange |-> x])
     /\ IF result.threw
        THEN /\ EnterChain(IF spc = "mistral" THEN "mistral" ELSE "gemini", "groq")
             /\ UNCHANGED resp
        ELSE /\ spc' = "idle"
             /\ resp' = Sent(result.value, IF spc = "mistral" THEN <<"mistral">>
                                           ELSE Fallback("mistral", "gemini"))
             /\ UNCHANGED <<caller, startModel, chain, idx, lastErr, cret>>
  /\ UNCHANGED <<clientVars, ASK, hasImages, served>>

\* askWebSearch: the Tavily search settles; with results it calls
\* askWithFallback(augmentedMessages), startModel defaulting to 'groq'
TavilyReply(ok) ==
  /\ spc = "tavily"
  /\ IF ok
     THEN EnterChain("websearch", "groq") /\ UNCHANGED resp
     ELSE /\ spc' = "idle"
          /\ resp' = Failed([by |-> "tavily", kind |-> "transport", wrapped |-> FALSE])
          /\ UNCHANGED <<caller, startModel, chain, idx, lastErr, cret>>
  /\ UNCHANGED <<clientVars, ASK, hasImages, attempts, served>>

NextAsk ==
  \/ \E a \in Asks, img \in BOOLEAN : Ask(a, img)
  \/ \E ok \in BOOLEAN : GoogleReply(ok)
  \/ \E x \in Exchanges : GeminiReply(x)
  \/ \E x \in Exchanges : MistralReply(x)
  \/ \E ok \in BOOLEAN : TavilyReply(ok)
  \/ \E x \in Exchanges : ChainAttempt(x)

SpecAsk == InitServer /\ [][NextAsk]_vars

\* ---------------------------------------------------------------- claims C24..C29

\* the provider calls made by the loop of askWithFallback in this request
ChainAttempts == SelectSeq(attempts, LAMBDA a : a.site = "chain")

Position(m) == IndexOf(ServerModelChain, m)

\* C24: a chain started at a provider of the fixed order attempts only that
\* provider and the ones after it, never one before it; started at gemini
\* with gemini failing and mistral succeeding, the call returns the label
\* "mistral (fallback from gemini)" and groq is never attempted.
C24_NeverBeforeStart ==
  /\ Position(startModel) # -1 =>
       \A i \in 1..Len(ChainAttempts) :
          Position(ChainAttempts[i].model) >= Position(startModel)
  /\ ( /\ startModel = "gemini" /\ Len(ChainAttempts) = 2
       /\ ~ChainAttempts[1].ok /\ ChainAttempts[2].ok )
     => /\ cret.kind = "return"
        /\ cret.reply.by = "mistral"
        /\ cret.modelUsed = <<"mistral", " (fallback from ", "gemini", ")">>
        /\ \A i \in 1..Len(attempts) : attempts[i].model # "groq"

C24_Witness ==
  /\ startModel = "gemini" /\ cret.kind = "return"
  /\ Len(ChainAttempts) = 2 /\ ChainAttempts[1].model = "gemini" /\ ~ChainAttempts[1].ok
  /\ ChainAttempts[2].model = "mistral"

\* C25: whatever the start argument, the label of a successful outcome is the
\* bare provider name exactly when that provider was the first one attempted,
\* and "<provider> (fallback from <start>)" otherwise.
C25_BareIffFirstAttempted ==
  cret.kind = "return" =>
    LET n == Len(ChainAttempts)
        provider == ChainAttempts[n].model
    IN IF n = 1 THEN cret.modelUsed = <<provider>>
       ELSE cret.modelUsed = Fallback(provider, startModel)

\* C26: for every provider of the chain, a response that embeds the provider's
\* error indicator counts as a failed attempt and is never returned as the reply.
C26_EmbeddedErrorIsFailure ==
  /\ \A i \in 1..Len(ChainAttempts) :
        ChainAttempts[i].exchange = "errbody" => ~ChainAttempts[i].ok
  /\ cret.reply.kind # "errbody"

\* C27: when every provider from the start to the end of the chain has failed,
\* askWithFallback throws the error of the last provider, no reply is produced,
\* the /ask response is an error carrying that cause, and nothing is awaited
\* any more for the request: each provider of the chain was attempted once.
C27_ExhaustionIsFinal ==
  cret.kind = "throw" =>
    LET n == Len(ChainAttempts)
        last == ChainAttempts[n]
    IN /\ n = Len(chain)
       /\ \A i \in 1..n : ~ChainAttempts[i].ok /\ ChainAttempts[i].model = chain[i]
       /\ cret.err = TryModel(last.model, last.exchange).err
       /\ cret.err.by = chain[Len(chain)]
       /\ cret.reply = NoReply /\ cret.modelUsed = NoLabel
       /\ spc = "idle"
       /\ caller # "direct" =>
            /\ resp.status = 500 /\ resp.reply = NoReply /\ resp.modelUsed = NoLabel
            /\ resp.error.by = cret.err.by /\ resp.error.kind = cret.err.kind

C27_Witness ==
  /\ cret.kind = "throw" /\ caller = "else" /\ Len(chain) = 3
  /\ resp.status = 500 /\ resp.error.wrapped /\ resp.error.by = "mistral"

\* C28: within askWithFallback the providers are attempted strictly in chain
\* order, each only after the one before it failed, none after the first
\* success, and never more often than there are providers from the start to
\* the end of the chain.
C28_InOrderUntilFirstSuccess ==
  LET n == Len(ChainAttempts) IN
  /\ n <= Len(chain)
  /\ startModel # None => chain = ChainFrom(startModel)
  /\ \A i \in 1..n : ChainAttempts[i].model = chain[i]
  /\ \A i \in 1..n : i < n => ~ChainAttempts[i].ok
  /\ (n > 0 /\ ChainAttempts[n].ok) => spc = "idle" /\ cret.kind = "return"
  /\ spc = "chain" => idx = n + 1

C28_Witness ==
  /\ Len(ChainAttempts) = 3 /\ ChainAttempts[3].ok /\ spc = "idle"
  /\ ~ChainAttempts[1].ok /\ ~ChainAttempts[2].ok

Providers == {"groq", "gemini", "mistral"}

\* C29: for a request that names a provider as first choice and is answered
\* by a provider, modelUsed begins with the name of the provider that produced
\* the reply, and whenever the first-choice provider failed it reads
\* "<provider> (fallback from <first choice>)".
C29_LabelStatesFirstChoice ==
  (resp.status = 200 /\ ASK \in Providers /\ ~hasImages) =>
    /\ resp.modelUsed[1] = resp.reply.by
    /\ (attempts[1].model = ASK /\ ~attempts[1].ok)
         => resp.modelUsed = Fallback(resp.reply.by, ASK)

\* C35: within one /ask request no provider is attempted more than once,
\* whichever provider is requested and whichever attempts fail.
C35_EachProviderOnce ==
  \A i, j \in 1..Len(attempts) : i < j => attempts[i].model # attempts[j].model

\* ================================================================ parsing the find arguments

\* the name parts, Ext: values, From: values and To: values the arguments are
\* composed of (<<>>: the sub-argument is absent)
FindNames == {<<"report">>, <<"My", SP, "report">>}
ExtValues == {<<>>, <<"pdf">>, <<".", "PDF">>}
FromValues == {<<>>, <<"today">>, <<"yesterday">>, Phrase(<<"last", "month">>),
               <<"2026-03-31T12:00">>}
ToValues == {<<>>, <<"today">>, <<"2026-03-01">>}

\* a From: or To: value that new Date(str) cannot parse
BadDates == {<<"soon">>}

\* the directory searched with the parsed arguments
ReportTree ==
  Root(<<File(<<"report", ".", "pdf">>, Early, TRUE),
         File(<<"My", SP, "report", ".", "PDF">>, Late, TRUE),
         Dir(<<"old">>, <<File(<<"report", ".", "txt">>, Mid, TRUE)>>, TRUE)>>)

SubArg(key, val) == IF val = <<>> THEN <<>> ELSE <<SP, key, ":", SP>> \o val

\* "<name> Ext: <ext> From: <from> To: <to>"
FindText(nm, ext, from, to) ==
  nm \o SubArg("Ext", ext) \o SubArg("From", from) \o SubArg("To", to)

\* the moments at which the arguments are parsed: mid-month, the last day of
\* a 31-day month after a 30-day one, and a day of January
Clocks == {MakeDate(2026, 10, 2, 1), MakeDate(2026, 9, 31, 1), MakeDate(2026, 0, 15, 2)}

InitParse ==
  /\ ResolveIdle
  /\ tree = ReportTree /\ filter = NoFilter /\ found = NotSearched
  /\ CallIdle
  /\ FocusIdle
  /\ ServerIdle
  /\ rootHandle = None /\ stored = None /\ focusFile = NoFocus /\ lastModel = None
  /\ apiSupported = TRUE /\ perm = "prompt" /\ loggedIn = TRUE
  /\ findRaw \in {FindText(nm, ext, from, to) :
                    nm \in FindNames, ext \in ExtValues,
                    from \in FromValues \cup BadDates, to \in ToValues \cup BadDates}
  /\ clock \in Clocks
  /\ findParts = [done |-> FALSE, parts |-> NoParts]
  /\ OverlapIdle

\* parseFindArgs(findRaw), new Date() returning clock
ParseFind ==
  /\ ~findParts.done
  /\ findParts' = [done |-> TRUE, parts |-> parseFindArgs(findRaw, clock)]
  /\ UNCHANGED <<resolveVars, sessionVars, searchVars, envVars, callVars, focusVars,
                 serverVars, findRaw, clock, overlapVars>>

\* handleFind after parseFindArgs: searchDirectory(rootHandle, name, ext || null,
\* from || null, to || null, results, '')
FindSearch ==
  /\ findParts.done /\ ~found.done
  /\ findParts.parts.name # <<>>
  /\ LET p == findParts.parts
         r == searchDirectory(tree, p.name, p.ext, p.from, p.to)
     IN  /\ filter' = [query |-> p.name, ext |-> p.ext, from |-> p.from, to |-> p.to]
         /\ found' = [done |-> TRUE, threw |-> r.threw, st |-> r.st]
  /\ UNCHANGED <<resolveVars, sessionVars, tree, envVars, callVars, focusVars, serverVars,
                 parseVars, overlapVars>>

NextParse == ParseFind \/ FindSearch

SpecParse == InitParse /\ [][NextParse]_vars

\* ---------------------------------------------------------------- claim C30

\* the calendar day one month before dt: the same day of the month before,
\* or that month's last day when it has no such day
OneMonthBefore(dt) ==
  LET y == IF dt.m = 0 THEN dt.y - 1 ELSE dt.y
      m == IF dt.m = 0 THEN 11 ELSE dt.m - 1
  IN  [y |-> y, m |-> m, d |-> Min({dt.d, DaysInMonth(y, m)}), t |-> dt.t]

\* the date a From: or To: value stands for
ResolvedDate(val, at) ==
  CASE val = <<"today">> -> at
    [] val = <<"yesterday">> -> MakeDate(at.y, at.m, at.d - 1, at.t)
    [] val = Phrase(<<"last", "month">>) -> OneMonthBefore(at)
    [] val = <<"2026-03-31T12:00">> -> MakeDate(2026, 2, 31, 1)
    [] val = <<"2026-03-01">> -> MakeDate(2026, 2, 1, 1)

NameOf(nm) == IF nm = <<"report">> THEN <<"report">> ELSE <<"my", SP, "report">>
ExtOf(ext) == IF ext = <<>> THEN <<>> ELSE <<"pdf">>

ParsedFrom(nm, ext, from, to) == findParts.done /\ findRaw = FindText(nm, ext, from, to)

\* C30: parseFindArgs splits the argument at the markers Ext:, From:, To:; the
\* name is the text before the first marker, trimmed and lower-cased; ext has
\* its leading dot removed and is lower-cased; from is the start of the day of
\* the date its value stands for ("last month": one month before now); to is
\* the end of the day of the date its value stands for.
C30_ParsesFilter ==
  \A nm \in FindNames, ext \in ExtValues, from \in FromValues, to \in ToValues :
    ParsedFrom(nm, ext, from, to) =>
      /\ findParts.parts.name = NameOf(nm)
      /\ findParts.parts.ext = ExtOf(ext)
      /\ findParts.parts.from =
           IF from = <<>> THEN NullDate ELSE SomeDate(StartOfDay(ResolvedDate(from, clock)))
      /\ findParts.parts.to =
           IF to = <<>> THEN NullDate ELSE SomeDate(EndOfDay(ResolvedDate(to, clock)))

\* ---------------------------------------------------------------- claim C31

ExtAdmits(n) == filter.ext # <<>> => HasExt(n, filter.ext)

\* C31: a From: or To: value that cannot be parsed as a date gives no bound:
\* parseFindArgs returns the parts it returns when that sub-argument is
\* absent, and the search admits every matching file whatever its
\* modification time is with respect to that bound.
C31_UnparseableIsNoConstraint ==
  \A nm \in FindNames, ext \in ExtValues,
     from \in FromValues \cup BadDates, to \in ToValues \cup BadDates :
    ParsedFrom(nm, ext, from, to) =>
      /\ from \in BadDates =>
           /\ ~findParts.parts.from.set
           /\ findParts.parts = parseFindArgs(FindText(nm, ext, <<>>, to), clock)
           /\ found.done =>
                /\ ~found.threw
                /\ \A n \in Yielded :
                     ( /\ IsFile(n) /\ NameMatches(n) /\ ExtAdmits(n)
                       /\ ~(filter.to.set /\ Before(filter.to, n.node.modified)) )
                     => AsResult(n) \in ResultSet
      /\ to \in BadDates =>
           /\ ~findParts.parts.to.set
           /\ findParts.parts = parseFindArgs(FindText(nm, ext, from, <<>>), clock)
           /\ found.done =>
                /\ ~found.threw
                /\ \A n \in Yielded :
                     ( /\ IsFile(n) /\ NameMatches(n) /\ ExtAdmits(n)
                       /\ ~(filter.from.set /\ Before(n.node.modified, filter.from)) )
                     => AsResult(n) \in ResultSet

C31_Witness ==
  /\ found.done
  /\ findRaw = FindText(<<"report">>, <<"pdf">>, <<"soon">>, <<"2026-03-01">>)
  /\ found.st.results = <<[kind |-> "file", path |-> <<"report", ".", "pdf">>]>>

====
